---- MODULE Spec2Model ----
(***************************************************************************)
(* ReadTrack front end: the grammar score card (GrammarScoreCard) and the  *)
(* analyzer's analyze handler (Analyzer.handleAnalyze), modelled from      *)
(* src/components/Analyzer.tsx and src/services/pythonService.ts.          *)
(*                                                                         *)
(* JavaScript numbers are IEEE 754 doubles.  The score card multiplies,    *)
(* adds, divides and subtracts doubles, so the model carries them exactly: *)
(* a double is a sign and a magnitude, the magnitude an exact multiple of  *)
(* 2^-Scale held as a natural number in limbs of LimbBits bits, and every  *)
(* arithmetic operation rounds its exact result to 53 significant bits,    *)
(* ties to even, as the hardware does.  All doubles the card can produce   *)
(* within the bounds of this model lie in [2^-20, 2^14], where the limb    *)
(* representation is exact.                                                *)
(***************************************************************************)
EXTENDS Integers, Sequences, FiniteSets, TLC

(* ----------------------------------------------------------------------- *)
(* Natural numbers of arbitrary size: little-endian sequences of limbs,    *)
(* no high zero limb (zero is the empty sequence).                         *)
(* ----------------------------------------------------------------------- *)
LimbBits == 15
Base == 2^LimbBits
ScaleLimbs == 5
Scale == ScaleLimbs * LimbBits
MantissaBits == 53

Min2(a, b) == IF a <= b THEN a ELSE b
Max2(a, b) == IF a >= b THEN a ELSE b

RECURSIVE NNorm(_)
NNorm(a) ==
  IF a = <<>> THEN <<>>
  ELSE IF a[Len(a)] = 0 THEN NNorm(SubSeq(a, 1, Len(a) - 1))
  ELSE a

Limb(a, i) == IF i <= Len(a) THEN a[i] ELSE 0

NFromInt(n) ==
  NNorm(<<n % Base, (n \div Base) % Base, n \div (Base * Base)>>)

RECURSIVE NAddC(_, _, _, _)
NAddC(a, b, i, c) ==
  IF i > Len(a) /\ i > Len(b)
  THEN IF c = 0 THEN <<>> ELSE <<c>>
  ELSE LET s == Limb(a, i) + Limb(b, i) + c
       IN  <<s % Base>> \o NAddC(a, b, i + 1, s \div Base)

NAdd(a, b) == NAddC(a, b, 1, 0)

\* a - b for a >= b
RECURSIVE NSubC(_, _, _, _)
NSubC(a, b, i, c) ==
  IF i > Len(a) THEN <<>>
  ELSE LET s == Limb(a, i) - Limb(b, i) - c
       IN  IF s < 0
           THEN <<s + Base>> \o NSubC(a, b, i + 1, 1)
           ELSE <<s>> \o NSubC(a, b, i + 1, 0)

NSub(a, b) == NNorm(NSubC(a, b, 1, 0))

\* -1, 0, 1 as a < b, a = b, a > b (both normalised)
RECURSIVE NCmpAt(_, _, _)
NCmpAt(a, b, i) ==
  IF i = 0 THEN 0
  ELSE IF a[i] < b[i] THEN -1
  ELSE IF a[i] > b[i] THEN 1
  ELSE NCmpAt(a, b, i - 1)

NCmp(a, b) ==
  IF Len(a) < Len(b) THEN -1
  ELSE IF Len(a) > Len(b) THEN 1
  ELSE NCmpAt(a, b, Len(a))

\* a * k for a limb k < Base
RECURSIVE NMulSmallC(_, _, _, _)
NMulSmallC(a, k, i, c) ==
  IF i > Len(a)
  THEN IF c = 0 THEN <<>> ELSE <<c>>
  ELSE LET s == a[i] * k + c
       IN  <<s % Base>> \o NMulSmallC(a, k, i + 1, s \div Base)

NMulSmall(a, k) == NNorm(NMulSmallC(a, k, 1, 0))

NShiftLimbs(a, n) == IF a = <<>> THEN <<>> ELSE [i \in 1..n |-> 0] \o a

RECURSIVE NMulFrom(_, _, _)
NMulFrom(a, b, j) ==
  IF j > Len(b) THEN <<>>
  ELSE NAdd(NShiftLimbs(NMulSmall(a, b[j]), j - 1), NMulFrom(a, b, j + 1))

NMul(a, b) == NMulFrom(a, b, 1)

\* quotient and remainder of a by a small d (0 < d < Base), high limb first
RECURSIVE NDivSmallAt(_, _, _, _)
NDivSmallAt(a, d, i, r) ==
  IF i = 0 THEN [q |-> <<>>, r |-> r]
  ELSE LET cur  == r * Base + a[i]
           rest == NDivSmallAt(a, d, i - 1, cur % d)
       IN  [q |-> Append(rest.q, cur \div d), r |-> rest.r]

NDivSmall(a, d) ==
  LET res == NDivSmallAt(a, d, Len(a), 0)
  IN  [q |-> NNorm(res.q), r |-> res.r]

SmallBitLen(x) == CHOOSE k \in 0..LimbBits : (k = 0 /\ x = 0) \/ (k > 0 /\ 2^(k-1) <= x /\ x < 2^k)

NBitLen(a) == IF a = <<>> THEN 0 ELSE LimbBits * (Len(a) - 1) + SmallBitLen(a[Len(a)])

NPow2(s) == [i \in 1..(s \div LimbBits + 1) |-> IF i = s \div LimbBits + 1 THEN 2^(s % LimbBits) ELSE 0]

\* a mod 2^s
NLowBits(a, s) ==
  NNorm([i \in 1..Min2(Len(a), s \div LimbBits + 1) |->
            IF i <= s \div LimbBits THEN a[i] ELSE a[i] % (2^(s % LimbBits))])

NBitAt(a, s) == (Limb(a, s \div LimbBits + 1) \div (2^(s % LimbBits))) % 2

(* ----------------------------------------------------------------------- *)
(* IEEE 754 doubles (JavaScript numbers).  A double is [neg, mag]: the     *)
(* value is (-1)^neg * mag * 2^-Scale.  The score card never produces NaN, *)
(* an infinity or a subnormal from the inputs modelled here.               *)
(* ----------------------------------------------------------------------- *)

\* round the exact magnitude n (plus a non-zero remainder below its last bit
\* when sticky) to 53 significant bits, ties to even
Round53(n, sticky) ==
  LET len == NBitLen(n)
  IN  IF len <= MantissaBits THEN n
      ELSE LET s     == len - MantissaBits
               rem   == NLowBits(n, s)
               c     == NCmp(rem, NPow2(s - 1))
               up    == c > 0 \/ (c = 0 /\ (sticky \/ NBitAt(n, s) = 1))
               floor == NSub(n, rem)
           IN  IF up THEN NAdd(floor, NPow2(s)) ELSE floor

Dbl(neg, mag) == [neg |-> neg /\ mag # <<>>, mag |-> mag]

\* the double nearest to the decimal literal p/q (0.8 is DLit(8, 10))
DLit(p, q) ==
  LET d == NDivSmall(NShiftLimbs(NFromInt(p), ScaleLimbs), q)
  IN  Dbl(FALSE, Round53(d.q, d.r # 0))

DInt(n) == DLit(n, 1)

\* a + b for a, b >= 0
DAdd(a, b) == Dbl(FALSE, Round53(NAdd(a.mag, b.mag), FALSE))

\* a * b for a, b >= 0
DMul(a, b) ==
  LET p == NMul(a.mag, b.mag)
  IN  Dbl(FALSE, Round53(SubSeq(p, ScaleLimbs + 1, Len(p)),
                         \E i \in 1..Min2(ScaleLimbs, Len(p)) : p[i] # 0))

\* a / n for a >= 0 and an integer n, 0 < n < Base
DDivInt(a, n) ==
  LET d == NDivSmall(a.mag, n)
  IN  Dbl(FALSE, Round53(d.q, d.r # 0))

\* a - b for a, b >= 0
DSub(a, b) ==
  IF NCmp(a.mag, b.mag) >= 0
  THEN Dbl(FALSE, Round53(NSub(a.mag, b.mag), FALSE))
  ELSE Dbl(TRUE, Round53(NSub(b.mag, a.mag), FALSE))

DLess(a, b) ==
  IF a.neg /\ ~b.neg THEN TRUE
  ELSE IF ~a.neg /\ b.neg THEN FALSE
  ELSE IF a.neg THEN NCmp(a.mag, b.mag) > 0
  ELSE NCmp(a.mag, b.mag) < 0

DLeq(a, b) == ~DLess(b, a)

MathMin(a, b) == IF DLess(b, a) THEN b ELSE a
MathMax(a, b) == IF DLess(a, b) THEN b ELSE a

\* Math.round(x) for 0 <= x < Base: floor(x + 0.5), as an integer
MathRound(x) ==
  LET n == NAdd(x.mag, NPow2(Scale - 1))
  IN  Limb(n, ScaleLimbs + 1)

(* ----------------------------------------------------------------------- *)
(* JavaScript strings are sequences of one-character strings; an optional  *)
(* value is a sequence of length 0 (undefined / null) or 1.                *)
(* ----------------------------------------------------------------------- *)
Null == <<>>
Some(x) == <<x>>

UpperCase == <<"A", "B", "C", "D", "E", "F", "G", "H", "I", "J", "K", "L", "M", "N", "O", "P", "Q", "R", "S", "T", "U", "V", "W", "X", "Y", "Z">>
LowerCase == <<"a", "b", "c", "d", "e", "f", "g", "h", "i", "j", "k", "l", "m", "n", "o", "p", "q", "r", "s", "t", "u", "v", "w", "x", "y", "z">>

ToLowerChar(c) ==
  IF \E i \in 1..Len(UpperCase) : UpperCase[i] = c
  THEN LowerCase[CHOOSE i \in 1..Len(UpperCase) : UpperCase[i] = c]
  ELSE c

\* String.prototype.toLowerCase
ToLowerCase(str) == [i \in 1..Len(str) |-> ToLowerChar(str[i])]

\* String.prototype.includes
Includes(str, sub) ==
  \E i \in 0..(Len(str) - Len(sub)) : SubSeq(str, i + 1, i + Len(sub)) = sub

WhiteSpace == {" ", "\n", "\t"}

\* String.prototype.split(/\s+/): the pieces between maximal runs of white
\* space, empty pieces at either end included
RECURSIVE SplitWhiteSpace(_, _, _, _)
SplitWhiteSpace(str, i, piece, inRun) ==
  IF i > Len(str) THEN <<piece>>
  ELSE IF str[i] \in WhiteSpace
       THEN IF inRun THEN SplitWhiteSpace(str, i + 1, piece, TRUE)
            ELSE <<piece>> \o SplitWhiteSpace(str, i + 1, <<>>, TRUE)
       ELSE SplitWhiteSpace(str, i + 1, Append(piece, str[i]), FALSE)

\* Array.prototype.filter(w => w.length > 0).length
CountNonEmpty(pieces) == Cardinality({i \in 1..Len(pieces) : Len(pieces[i]) > 0})

(* ----------------------------------------------------------------------- *)
(* GrammarScoreCard (src/components/Analyzer.tsx)                          *)
(* ----------------------------------------------------------------------- *)
STR_capital == <<"c", "a", "p", "i", "t", "a", "l">>
STR_nakamalaking_titik == <<"n", "a", "k", "a", "m", "a", "l", "a", "k", "i", "n", "g", " ", "t", "i", "t", "i", "k">>
STR_CAPITALIZATION == <<"C", "A", "P", "I", "T", "A", "L", "I", "Z", "A", "T", "I", "O", "N">>
STR_PROPER_NOUN == <<"P", "R", "O", "P", "E", "R", "_", "N", "O", "U", "N">>
STR_NAME_AFTER == <<"N", "A", "M", "E", "_", "A", "F", "T", "E", "R">>

\* the number literals of the card
D_0 == DInt(0)
D_100 == DInt(100)
D_2_0 == DLit(20, 10)
D_1_5 == DLit(15, 10)
D_0_8 == DLit(8, 10)
D_0_6 == DLit(6, 10)
D_0_4 == DLit(4, 10)
D_1_0 == DLit(10, 10)
D_1_2 == DLit(12, 10)
D_0_5 == DLit(5, 10)

\* typeWeights with the weights of punctuation and style exchanged
typeWeights_Exchanged(type) ==
  CASE type = "spelling"       -> Some(D_2_0)
    [] type = "grammar"        -> Some(D_1_5)
    [] type = "punctuation"    -> Some(D_0_6)
    [] type = "style"          -> Some(D_0_8)
    [] type = "capitalization" -> Some(D_0_4)
    [] OTHER                   -> Null

\* const typeWeights: Record<string, number>; a type that is not a key has no
\* weight (undefined)
typeWeights(type) ==
  CASE type = "spelling"       -> Some(D_2_0)
    [] type = "grammar"        -> Some(D_1_5)
    [] type = "punctuation"    -> Some(D_0_8)
    [] type = "style"          -> Some(D_0_6)
    [] type = "capitalization" -> Some(D_0_4)
    [] OTHER                   -> Null

\* isCapitalizationIssue without the toLowerCase() of the message
isCapitalizationIssue_CaseSensitive(issue) ==
  \/ Includes(issue.message, STR_capital)
  \/ Includes(issue.message, STR_nakamalaking_titik)
  \/ (issue.rule_id # Null /\ Includes(issue.rule_id[1], STR_CAPITALIZATION))
  \/ (issue.rule_id # Null /\ Includes(issue.rule_id[1], STR_PROPER_NOUN))
  \/ (issue.rule_id # Null /\ Includes(issue.rule_id[1], STR_NAME_AFTER))

\* issue.message?.toLowerCase().includes(..) || .. || issue.rule_id?.includes(..)
isCapitalizationIssue(issue) ==
  \/ Includes(ToLowerCase(issue.message), STR_capital)
  \/ Includes(ToLowerCase(issue.message), STR_nakamalaking_titik)
  \/ (issue.rule_id # Null /\ Includes(issue.rule_id[1], STR_CAPITALIZATION))
  \/ (issue.rule_id # Null /\ Includes(issue.rule_id[1], STR_PROPER_NOUN))
  \/ (issue.rule_id # Null /\ Includes(issue.rule_id[1], STR_NAME_AFTER))

\* the type-based weight of the reducer, before the severity multiplier
TypeWeightOf(issue) ==
  IF isCapitalizationIssue(issue) THEN D_0_4
  ELSE IF typeWeights(issue.type) # Null THEN typeWeights(issue.type)[1]
  ELSE D_1_0

SeverityMultiplier(severity) ==
  IF severity = "error" THEN D_1_2
  ELSE IF severity = "warning" THEN D_0_8
  ELSE D_0_5

\* the weight the reducer adds for one issue
IssueWeight(issue) == DMul(TypeWeightOf(issue), SeverityMultiplier(issue.severity))

\* grammarResult.issues.reduce((sum, issue) => sum + weight, 0): left to right
RECURSIVE ReduceWeights(_, _, _)
ReduceWeights(issues, i, sum) ==
  IF i > Len(issues) THEN sum
  ELSE ReduceWeights(issues, i + 1, DAdd(sum, IssueWeight(issues[i])))

\* a reducer that skips an issue whose range overlaps the issue before it
RECURSIVE ReduceWeightsMerged(_, _, _)
ReduceWeightsMerged(issues, i, sum) ==
  IF i > Len(issues) THEN sum
  ELSE IF i > 1 /\ issues[i].offset < issues[i-1].offset + issues[i-1].length
                /\ issues[i-1].offset < issues[i].offset + issues[i].length
       THEN ReduceWeightsMerged(issues, i + 1, sum)
       ELSE ReduceWeightsMerged(issues, i + 1, DAdd(sum, IssueWeight(issues[i])))

weightedErrorsOf_MergeOverlaps(issues) == ReduceWeightsMerged(issues, 1, D_0)

\* a reducer that starts from 1 instead of 0
weightedErrorsOf_FromOne(issues) == ReduceWeights(issues, 1, D_1_0)

weightedErrorsOf(issues) == ReduceWeights(issues, 1, D_0)

totalWordsOf(text) == CountNonEmpty(SplitWhiteSpace(text, 1, <<>>, FALSE))

\* errorRate without the factor 100
errorRateOf_NoPercent(weightedErrors, totalWords) ==
  IF totalWords > 0 THEN DDivInt(weightedErrors, totalWords) ELSE D_0

\* errorRate that divides by at least one word instead of testing totalWords > 0
errorRateOf_AtLeastOneWord(weightedErrors, totalWords) ==
  DMul(DDivInt(weightedErrors, Max2(totalWords, 1)), D_100)

errorRateOf(weightedErrors, totalWords) ==
  IF totalWords > 0 THEN DMul(DDivInt(weightedErrors, totalWords), D_100) ELSE D_0

\* grammarScore without Math.max(0, ..)
grammarScoreOf_NoLowerClamp(errorRate) == MathMin(D_100, DSub(D_100, errorRate))

grammarScoreOf(errorRate) == MathMax(D_0, MathMin(D_100, DSub(D_100, errorRate)))

\* what one render of the card computes from its prop
RenderCard(result) ==
  LET tw == totalWordsOf(result.text)
      we == weightedErrorsOf(result.issues)
      er == errorRateOf(we, tw)
      gs == grammarScoreOf(er)
  IN  [totalWords |-> tw, weightedErrors |-> we, errorRate |-> er,
       grammarScore |-> gs, shown |-> MathRound(gs)]

\* <GrammarScoreCard grammarResult={grammarResult} />
GrammarScoreCard(result) == IF result = Null THEN Null ELSE Some(RenderCard(result[1]))

(* ----------------------------------------------------------------------- *)
(* Inputs of the score card: grammar check responses                       *)
(* ----------------------------------------------------------------------- *)
MaxIssues == 3

MSG_plain == <<"P", "o", "s", "s", "i", "b", "l", "e", " ", "t", "y", "p", "o">>
MSG_capital == <<"U", "s", "e", " ", "a", " ", "C", "a", "p", "i", "t", "a", "l", " ", "l", "e", "t", "t", "e", "r">>
MSG_titik == <<"G", "a", "m", "i", "t", "i", "n", " ", "a", "n", "g", " ", "N", "a", "k", "a", "m", "a", "l", "a", "k", "i", "n", "g", " ", "T", "i", "t", "i", "k">>
RULE_plain == <<"M", "O", "R", "F", "O", "L", "O", "G", "I", "K", "_", "R", "U", "L", "E">>
RULE_cap == <<"E", "N", "_", "C", "A", "P", "I", "T", "A", "L", "I", "Z", "A", "T", "I", "O", "N">>
RULE_proper == <<"P", "R", "O", "P", "E", "R", "_", "N", "O", "U", "N", "_", "C", "A", "S", "E">>
RULE_name == <<"N", "A", "M", "E", "_", "A", "F", "T", "E", "R", "_", "T", "I", "T", "L", "E">>
RULE_lower == <<"c", "a", "p", "i", "t", "a", "l", "i", "z", "a", "t", "i", "o", "n">>

DataModelTypes == {"spelling", "grammar", "punctuation", "style", "capitalization"}
DataModelSeverities == {"error", "warning", "info"}

Issue(type, severity, message, rule_id, offset, length) ==
  [type |-> type, severity |-> severity, message |-> message,
   rule_id |-> rule_id, offset |-> offset, length |-> length]

\* the issues any position of a list may hold
CoreIssues ==
  { Issue("spelling", "error", MSG_plain, Some(RULE_plain), 0, 3),
    Issue("grammar", "warning", MSG_plain, Null, 12, 2),
    Issue("grammar", "error", MSG_plain, Null, 2, 3),
    Issue("style", "info", MSG_plain, Null, 0, 3) }

\* the issues only the first position of a list may hold
WideIssues ==
  { Issue(t, s, MSG_plain, Null, 0, 3) : t \in DataModelTypes, s \in DataModelSeverities }
  \cup
  { Issue("typographical", "error", MSG_plain, Null, 0, 3),
    Issue("spelling", "hint", MSG_plain, Null, 0, 3),
    Issue("spelling", "error", MSG_capital, Null, 0, 3),
    Issue("grammar", "warning", MSG_titik, Null, 0, 3),
    Issue("punctuation", "info", MSG_plain, Some(RULE_cap), 0, 3),
    Issue("style", "error", MSG_plain, Some(RULE_proper), 0, 3),
    Issue("spelling", "warning", MSG_plain, Some(RULE_name), 0, 3),
    Issue("spelling", "error", MSG_plain, Some(RULE_lower), 0, 3) }

RECURSIVE IssueLists(_)
IssueLists(n) ==
  IF n = 0 THEN {<<>>}
  ELSE LET shorter == IssueLists(n - 1)
       IN  shorter \cup
           { Append(l, i) : l \in {x \in shorter : Len(x) = n - 1 /\ n > 1}, i \in CoreIssues }
           \cup (IF n = 1 THEN { <<i>> : i \in CoreIssues \cup WideIssues } ELSE {})

TEXT_empty == <<>>
TEXT_blank == <<" ">> \o <<"\n">>
TEXT_one == <<"H", "e", "l", "l", "o">>
TEXT_four == <<"I", "t", " ", "i", "s", " ", "s", "o", " ", "c", "o", "l", "d">>
TEXT_five == <<"T", "e", "h", " ", "c", "a", "t", " ", "i", "s", " ", "r", "u", "n", " ", "f", "a", "s", "t", ".">>
TEXT_ten == <<"a", " ", "b", " ", "c", " ", "d", " ", "e", " ", "f", " ", "g", " ", "h", " ", "i", " ", "j">>
TEXT_ragged == <<"\n">> \o <<" ", "W", "e", " ", " ", "g", "o">> \o <<"\t", "\n">> \o <<"h", "o", "m", "e", " ">>

Texts == {TEXT_empty, TEXT_blank, TEXT_one, TEXT_four, TEXT_five, TEXT_ten, TEXT_ragged}

GrammarCheckResponses ==
  { [text |-> t, issues |-> l] : t \in Texts, l \in IssueLists(MaxIssues) }

(* ----------------------------------------------------------------------- *)
(* Analyzer (src/components/Analyzer.tsx), the backend calls of            *)
(* src/services/pythonService.ts and App.handleSaveAnalysis                *)
(* ----------------------------------------------------------------------- *)
\* textToAnalyze.trim().length < 15
MinTextLength == 15
\* [analysis, ...prev].slice(0, 20)
RecentLimit == 20
\* bound: an analysis starts only while fewer than MaxSaved analyses are
\* saved or under way
MaxSaved == 1

\* String.prototype.trim
RECURSIVE TrimStart(_)
TrimStart(str) ==
  IF str # <<>> /\ str[1] \in WhiteSpace THEN TrimStart(SubSeq(str, 2, Len(str))) ELSE str

RECURSIVE TrimEnd(_)
TrimEnd(str) ==
  IF str # <<>> /\ str[Len(str)] \in WhiteSpace THEN TrimEnd(SubSeq(str, 1, Len(str) - 1)) ELSE str

Trim_Nothing(str) == str

Trim(str) == TrimEnd(TrimStart(str))

MSG_enter_text == <<"P", "l", "e", "a", "s", "e", " ", "e", "n", "t", "e", "r", " ", "t", "e", "x", "t", " ", "o", "r", " ", "u", "p", "l", "o", "a", "d", " ", "a", " ", "d", "o", "c", "u", "m", "e", "n", "t", " ", "t", "o", " ", "a", "n", "a", "l", "y", "z", "e", ".">>
MSG_too_short == <<"T", "e", "x", "t", " ", "i", "s", " ", "t", "o", "o", " ", "s", "h", "o", "r", "t", ".", " ", "P", "l", "e", "a", "s", "e", " ", "p", "r", "o", "v", "i", "d", "e", " ", "a", "t", " ", "l", "e", "a", "s", "t", " ", "1", "5", " ", "c", "h", "a", "r", "a", "c", "t", "e", "r", "s", " ", "f", "o", "r", " ", "a", "n", "a", "l", "y", "s", "i", "s", ".">>
MSG_unexpected == <<"A", "n", " ", "u", "n", "e", "x", "p", "e", "c", "t", "e", "d", " ", "e", "r", "r", "o", "r", " ", "o", "c", "c", "u", "r", "r", "e", "d", ".">>
MSG_content_too_short == <<"T", "h", "e", " ", "c", "o", "n", "t", "e", "n", "t", " ", "i", "s", " ", "t", "o", "o", " ", "s", "h", "o", "r", "t", " ", "t", "o", " ", "a", "n", "a", "l", "y", "z", "e", " ", "p", "r", "o", "p", "e", "r", "l", "y", ".">>
STR_too_short == <<"t", "o", "o", " ", "s", "h", "o", "r", "t">>
STR_http_error == <<"H", "T", "T", "P", " ", "e", "r", "r", "o", "r", "!", " ", "s", "t", "a", "t", "u", "s", ":", " ">>

\* what the user can type into the textarea
INPUT_blank == <<" ", " ">>
INPUT_short == <<" ", "a", "b", "c", "d", "e", "f", "g", "h", "i", "j", "k", "l", "m", "n", " ">>
INPUT_ok == <<"a", "b", "c", "d", "e", "f", "g", "h", "i", "j", "k", "l", "m", "n", "o">>
InputTexts == {TEXT_empty, INPUT_blank, INPUT_short, INPUT_ok}

REF_text == <<"T", "h", "e", " ", "a", "n", "s", "w", "e", "r", " ", "k", "e", "y">>
FILE_image == [base64 |-> "aW1hZ2U=", mimeType |-> "image/png", name |-> "page.png"]

\* what the backend can answer
OCR_text == <<"T", "e", "x", "t", " ", "r", "e", "a", "d", " ", "f", "r", "o", "m", " ", "t", "h", "e", " ", "i", "m", "a", "g", "e">>
DETAIL_too_short == <<"T", "e", "x", "t", " ", "t", "o", "o", " ", "s", "h", "o", "r", "t", " ", "f", "o", "r", " ", "a", "n", "a", "l", "y", "s", "i", "s">>
ERR_failed_to_fetch == <<"F", "a", "i", "l", "e", "d", " ", "t", "o", " ", "f", "e", "t", "c", "h">>

DIAG_plain == [analyzed_text |-> Null, issues |-> <<>>, contentValidation |-> Null]
DIAG_ocr == [analyzed_text |-> Some(OCR_text), issues |-> <<"issue-1">>, contentValidation |-> Null]
COMP_literal == [level |-> "Literal"]
VALIDATION_ok == [hasReference |-> TRUE, accuracyScore |-> 80]
VALIDATION_failed == [hasReference |-> TRUE, accuracyScore |-> 0]
ValidationResults == {VALIDATION_ok, VALIDATION_failed}

HttpOk(body) == [kind |-> "http", ok |-> TRUE, status |-> <<"2", "0", "0">>, detail |-> Null, body |-> Some(body)]
HttpError(status, detail) == [kind |-> "http", ok |-> FALSE, status |-> status, detail |-> detail, body |-> Null]
\* fetch itself rejects; the runtime chooses the message of the error
NetworkFailure(message) ==
  [kind |-> "network", ok |-> FALSE, status |-> <<>>, detail |-> Some(message), body |-> Null]

StudentResponses ==
  { HttpOk(DIAG_plain), HttpOk(DIAG_ocr),
    HttpError(<<"4", "0", "0">>, Some(DETAIL_too_short)),
    HttpError(<<"5", "0", "2">>, Null),
    NetworkFailure(ERR_failed_to_fetch),
    NetworkFailure(<<>>) }

ComplexityResponses == { HttpOk(COMP_literal), HttpError(<<"5", "0", "2">>, Null) }

ERR_grammar_check_failed == <<"G", "r", "a", "m", "m", "a", "r", " ", "c", "h", "e", "c", "k", " ", "f", "a", "i", "l", "e", "d">>

\* what /api/grammar/check can answer to checkGrammar
GrammarResponses ==
  { HttpOk([text |-> TEXT_five,
            issues |-> << Issue("spelling", "error", MSG_plain, Some(RULE_plain), 0, 3),
                          Issue("grammar", "warning", MSG_plain, Null, 12, 2) >>]),
    HttpError(<<"5", "0", "0">>, Null),
    NetworkFailure(ERR_failed_to_fetch) }

\* a promise: pending, fulfilled with a value, or rejected with an Error
Pending == [state |-> "pending", value |-> Null, error |-> Null]
Fulfilled(v) == [state |-> "fulfilled", value |-> Some(v), error |-> Null]
Rejected(message) == [state |-> "rejected", value |-> Null, error |-> Some(message)]

\* analyzeStudentWorkAPI: fetch, throw new Error(detail || `HTTP error! status: ..`)
\* unless response.ok, else the parsed body
analyzeStudentWorkAPI(response) ==
  IF response.kind = "network" THEN Rejected(response.detail[1])
  ELSE IF ~response.ok
       THEN Rejected(IF response.detail # Null /\ response.detail[1] # <<>>
                     THEN response.detail[1]
                     ELSE STR_http_error \o response.status)
       ELSE Fulfilled(response.body[1])

\* classifyTextComplexityAPI: the same code for /analyze/complexity
classifyTextComplexityAPI(response) ==
  IF response.kind = "network" THEN Rejected(response.detail[1])
  ELSE IF ~response.ok
       THEN Rejected(IF response.detail # Null /\ response.detail[1] # <<>>
                     THEN response.detail[1]
                     ELSE STR_http_error \o response.status)
       ELSE Fulfilled(response.body[1])

\* checkGrammar: fetch, throw new Error(error.detail || 'Grammar check failed')
\* unless response.ok, else the parsed body
checkGrammar(response) ==
  IF response.kind = "network" THEN Rejected(response.detail[1])
  ELSE IF ~response.ok
       THEN Rejected(IF response.detail # Null /\ response.detail[1] # <<>>
                     THEN response.detail[1]
                     ELSE ERR_grammar_check_failed)
       ELSE Fulfilled(response.body[1])

\* a promise whose rejection is passed on
CatchNull_Rethrow(p) ==
  IF p.state = "rejected" THEN p ELSE Fulfilled(p.value)

\* promise.catch(() => null): fulfilled with null (Null) when p is rejected,
\* with the value of p (Some) when p is fulfilled
CatchNull(p) ==
  IF p.state = "rejected" THEN Fulfilled(Null) ELSE Fulfilled(p.value)

\* the useState initial values of Analyzer
InitialState ==
  [currentText |-> <<>>, inputText |-> <<>>, isLoading |-> FALSE, errorMessage |-> Null,
   diagnosisResult |-> Null, complexityResult |-> Null, currentIssues |-> <<>>,
   selectedFile |-> Null,
   useReferenceValidation |-> FALSE, showReferenceInput |-> FALSE, referenceText |-> <<>>]

\* const hasResults = !!diagnosisResult && !!complexityResult
hasResults(s) == s.diagnosisResult # Null /\ s.complexityResult # Null

\* the card as the results view mounts it: {hasResults && !isLoading && ..
\* {grammarResult && <GrammarScoreCard grammarResult={grammarResult} />}
CardIn(s, result) ==
  IF hasResults(s) /\ ~s.isLoading THEN GrammarScoreCard(result) ELSE Null

\* the values a render reads: the hooks s, and grammarResult
Shown(s, result) == s @@ [grammarResult |-> result]

CatchMessage_OwnMessage(message) ==
  IF message # <<>> THEN message ELSE MSG_unexpected

\* the message the catch block of handleAnalyze shows for an Error
CatchMessage(message) ==
  IF Includes(message, STR_too_short) THEN MSG_content_too_short
  ELSE IF message # <<>> THEN message
  ELSE MSG_unexpected

\* a catch block with no finally block after it
CatchFinally_NoFinally(s, message) ==
  [s EXCEPT !.errorMessage = Some(CatchMessage(message))]

\* catch (e) { .. setErrorMessage(msg) } finally { setIsLoading(false); setSelectedFile(null) }
CatchFinally(s, message) ==
  [s EXCEPT !.errorMessage = Some(CatchMessage(message)),
            !.isLoading = FALSE, !.selectedFile = Null]

\* setDiagnosisResult(diag) .. setCurrentIssues(diag.issues), then finally
SetResultsFinally(s, diag, comp) ==
  [s EXCEPT !.diagnosisResult = Some(diag), !.complexityResult = Some(comp),
            !.currentIssues = diag.issues,
            !.isLoading = FALSE, !.selectedFile = Null]

\* the CachedAnalysis handed to onSaveAnalysis (id, timestamp and title left out)
CachedAnalysis(call, diag, comp) ==
  [studentText |-> IF diag.analyzed_text # Null /\ diag.analyzed_text[1] # <<>>
                   THEN diag.analyzed_text[1] ELSE call.finalText,
   diagnosisResult |-> diag, complexityResult |-> comp,
   referenceUsed |-> IF Len(Trim(call.referenceText)) > 5 THEN Some(call.referenceText) ELSE Null]

\* handleSaveAnalysis that appends
handleSaveAnalysis_Append(prev, analysis) ==
  SubSeq(prev \o <<analysis>>, 1, Min2(Len(prev) + 1, RecentLimit))

\* App.handleSaveAnalysis: setRecentAnalyses(prev => [analysis, ...prev].slice(0, 20))
handleSaveAnalysis(prev, analysis) ==
  SubSeq(<<analysis>> \o prev, 1, Min2(Len(prev) + 1, RecentLimit))

\* useReferenceValidation && showReferenceInput && referenceText.trim().length > 5
\* (no reference files are attached in this model)
WantsValidation(call) ==
  call.useReferenceValidation /\ call.showReferenceInput /\ Len(Trim(call.referenceText)) > 5

(* ----------------------------------------------------------------------- *)
(* App (src/App.tsx): views, the saved lists and their localStorage items  *)
(* ----------------------------------------------------------------------- *)
\* JSON.stringify of a list, as the item localStorage keeps
\* what JSON.stringify makes of an entry of a list: a Date (the timestamp of
\* a CachedAnalysis) becomes its ISO string, which JSON.parse leaves a string
ToJSON(entry) ==
  IF "timestamp" \in DOMAIN entry
  THEN [entry EXCEPT !.timestamp = [type |-> "string", ms |-> @.ms]]
  ELSE entry

\* JSON.stringify(list) as the item JSON.parse reads back
JSONstringify(value) == [valid |-> TRUE, value |-> [i \in 1..Len(value) |-> ToJSON(value[i])]]

\* an item that JSON.parse throws on
ITEM_corrupt == [valid |-> FALSE, value |-> <<>>]

\* JSON.parse(item): Some(value), or Null when it throws
JSONparse(item) == IF item.valid THEN Some(item.value) ELSE Null

\* the values of the App hooks the save effects depend on
AppShown(a, analyses) ==
  [recentAnalyses |-> analyses, savedReferences |-> a.savedReferences,
   hasLoadedCache |-> a.hasLoadedCache]

\* useEffect(.., [deps]) runs after the first render and after a render in
\* which one of deps differs from the render before (last is Null or Some)
DepsChanged(last, now, deps) ==
  last = Null \/ \E d \in deps : last[1][d] # now[d]

\* save effects without the test of hasLoadedCache
SaveEffects_Unguarded(storage, last, now) ==
  [storage EXCEPT
     !.readtrack_references =
        IF DepsChanged(last, now, {"savedReferences", "hasLoadedCache"})
        THEN Some(JSONstringify(now.savedReferences)) ELSE @,
     !.readtrack_analyses =
        IF DepsChanged(last, now, {"recentAnalyses", "hasLoadedCache"})
        THEN Some(JSONstringify(now.recentAnalyses)) ELSE @]

\* the two save effects after a render showing now:
\* if (!hasLoadedCache) return; localStorage.setItem(key, JSON.stringify(list))
SaveEffects(storage, last, now) ==
  [storage EXCEPT
     !.readtrack_references =
        IF DepsChanged(last, now, {"savedReferences", "hasLoadedCache"}) /\ now.hasLoadedCache
        THEN Some(JSONstringify(now.savedReferences)) ELSE @,
     !.readtrack_analyses =
        IF DepsChanged(last, now, {"recentAnalyses", "hasLoadedCache"}) /\ now.hasLoadedCache
        THEN Some(JSONstringify(now.recentAnalyses)) ELSE @]

\* the App once mounted and loaded, with nothing stored before
AppLoaded ==
  [activeView |-> "dashboard", hasLoadedCache |-> TRUE, savedReferences |-> <<>>,
   selectedAnalysis |-> Null]
StorageLoaded ==
  [readtrack_references |-> Some(JSONstringify(<<>>)),
   readtrack_analyses |-> Some(JSONstringify(<<>>))]

\* type ViewState; 'reports' and 'evaluation' show the same component
Views == {"dashboard", "grammar"}

(* ----------------------------------------------------------------------- *)
(* State                                                                   *)
(* ----------------------------------------------------------------------- *)
VARIABLES
  grammarResult,   \* Analyzer state grammarResult, the prop of GrammarScoreCard: Null or Some(response)
  card,            \* what GrammarScoreCard last rendered (ScoreSpec): Null (not rendered) or Some(values)
  st,              \* the other state hooks of Analyzer, as last set
  view,            \* the values of all these hooks in the last render (what the handlers' closures read)
  calls,           \* the handleAnalyze invocations that are awaiting, with their requests
  recentAnalyses,  \* App state recentAnalyses, written through the onSaveAnalysis prop
  app,             \* the other state hooks of App: activeView, hasLoadedCache, savedReferences
  appView,         \* the values the save effects of App last ran with: Null or Some(values)
  localStorage,    \* the items 'readtrack_references' and 'readtrack_analyses': Null or Some(item)
  vocab,           \* one analysis as the CEFR vocabulary display sees it: words, language, groups, card, highlights
  classification,  \* one classification request: the scoring path taken and the result delivered to the caller
  evaluation,      \* the ModelEvaluation component: mounted or not, its hooks, its metrics fetch
  validation,      \* one call of validateContentWithGemini: its arguments, the AI request, the promise it returned
  debounce,        \* debounced grammar checkers: the clock, timeoutId of each checker, timers, requests; the GrammarChecker's hooks
  highlight        \* one rendering of InteractiveEditor: its text and issue props, the segments it renders

scoreVars == <<grammarResult, card>>
analyzerVars == <<st, view, calls, recentAnalyses>>
appVars == <<app, appView, localStorage>>
componentVars == <<vocab, classification, debounce, evaluation, validation, highlight>>
vars == <<grammarResult, card, st, view, calls, recentAnalyses, app, appView, localStorage, vocab,
         classification, debounce, evaluation, validation, highlight>>

\* no analysis has reached the CEFR vocabulary display
VocabIdle == [pc |-> "idle"]

\* the components outside the Analyzer's state machine, before they are used
\* no classification has been requested
ClassificationIdle == [pc |-> "idle"]

\* the default of the delay parameter of createDebouncedGrammarCheck, in ms
DefaultDelay == 1000

\* no checker has been created: time 0, no timer, no request; the hooks of a
\* GrammarChecker with their initial values
DebounceIdle(delay) ==
  [delay |-> delay, now |-> 0, timeoutId |-> <<>>, timers |-> <<>>, requests |-> <<>>,
   text |-> <<>>, result |-> Null, loading |-> FALSE]

\* ModelEvaluation is not mounted; its hooks would start as useState gives
\* them: metrics null, isLoading true, isOfflineMode false
EvaluationIdle ==
  [mounted |-> FALSE, metrics |-> Null, isLoading |-> TRUE, isOfflineMode |-> FALSE,
   fetch |-> "none", response |-> Null, stale |-> 0, mounts |-> 0]

\* validateContentWithGemini has not been called
ValidationIdle == [pc |-> "idle"]

\* InteractiveEditor has rendered no text
HighlightIdle == [pc |-> "idle"]

ComponentsIdle ==
  /\ vocab = VocabIdle
  /\ classification = ClassificationIdle
  /\ debounce = DebounceIdle(DefaultDelay)
  /\ evaluation = EvaluationIdle
  /\ validation = ValidationIdle
  /\ highlight = HighlightIdle

\* an Analyzer that shows the results of an analysis
ResultsShown ==
  [InitialState EXCEPT !.currentText = TEXT_five,
                       !.diagnosisResult = Some(DIAG_plain),
                       !.complexityResult = Some(COMP_literal)]

ScoreInit ==
  /\ grammarResult = Null
  /\ st = ResultsShown
  /\ view = Shown(ResultsShown, Null)
  /\ card = CardIn(ResultsShown, Null)
  /\ calls = <<>>
  /\ recentAnalyses = <<>>
  /\ app = AppLoaded
  /\ appView = Some(AppShown(AppLoaded, <<>>))
  /\ localStorage = StorageLoaded
  /\ ComponentsIdle

\* setGrammarResult(grammar) with a grammar check response, and the render
\* of the card it causes
SetGrammarResult ==
  /\ grammarResult = Null
  /\ \E r \in GrammarCheckResponses :
       /\ grammarResult' = Some(r)
       /\ view' = Shown(st, Some(r))
       /\ card' = CardIn(st, Some(r))
  /\ UNCHANGED <<st, calls, recentAnalyses, app, appView, localStorage, componentVars>>

\* setGrammarResult(null), and the render it causes
ClearGrammarResult ==
  /\ grammarResult # Null
  /\ grammarResult' = Null
  /\ view' = Shown(st, Null)
  /\ card' = CardIn(st, Null)
  /\ UNCHANGED <<st, calls, recentAnalyses, app, appView, localStorage, componentVars>>

ScoreNext == SetGrammarResult \/ ClearGrammarResult

ScoreSpec == ScoreInit /\ [][ScoreNext]_vars

(* ----------------------------------------------------------------------- *)
(* The Analyzer: user events, handleAnalyze and its continuations          *)
(* ----------------------------------------------------------------------- *)
\* bound: the calls of handleAnalyze that can be awaiting at once
MaxCalls == 2

\* the Analyzer as mounted; the score card is not mounted, and this
\* specification leaves the rendering of the card to ScoreSpec
Init ==
  /\ grammarResult = Null
  /\ st = InitialState
  /\ view = Shown(InitialState, Null)
  /\ card = Null
  /\ calls = <<>>
  /\ recentAnalyses = <<>>
  /\ app = AppLoaded
  /\ appView = Some(AppShown(AppLoaded, <<>>))
  /\ localStorage = StorageLoaded
  /\ ComponentsIdle

\* a React event handler has set the hooks to s and g; React renders before
\* the next event
Rerender(s, g) ==
  /\ app.activeView = "dashboard"
  /\ st' = s
  /\ grammarResult' = g
  /\ view' = Shown(s, g)
  /\ UNCHANGED <<card, componentVars, app, appView, localStorage>>

\* the render React schedules after state was set outside an event
\* handler, of App and of the Analyzer in it, and the effects after it
Render ==
  LET now == AppShown(app, recentAnalyses) IN
  /\ appView # Null
  /\ view # Shown(st, grammarResult) \/ appView # Some(now)
  /\ view' = Shown(st, grammarResult)
  /\ appView' = Some(now)
  /\ localStorage' = SaveEffects(localStorage, appView, now)
  /\ UNCHANGED <<grammarResult, card, componentVars, st, calls, recentAnalyses, app>>

\* handleInputChange: setInputText(e.target.value); if (errorMessage) setErrorMessage(null)
handleInputChange ==
  \E value \in InputTexts :
    /\ value # view.inputText
    /\ Rerender([st EXCEPT !.inputText = value,
                           !.errorMessage = IF view.errorMessage # Null /\ view.errorMessage[1] # <<>>
                                            THEN Null ELSE @],
                grammarResult)
    /\ UNCHANGED <<calls, recentAnalyses>>

\* processFileAsStudent with an image: reader.onloadend sets selectedFile
processFileAsStudent ==
  /\ app.activeView = "dashboard"
  /\ st.selectedFile = Null
  /\ st' = [st EXCEPT !.selectedFile = Some(FILE_image)]
  /\ UNCHANGED <<grammarResult, card, componentVars, view, calls, recentAnalyses, app, appView, localStorage>>

\* the button on the file chip: setSelectedFile(null)
RemoveSelectedFile ==
  /\ view.selectedFile # Null
  /\ Rerender([st EXCEPT !.selectedFile = Null], grammarResult)
  /\ UNCHANGED <<calls, recentAnalyses>>

\* the button on the error banner: setErrorMessage(null)
DismissError ==
  /\ view.errorMessage # Null /\ view.errorMessage[1] # <<>>
  /\ Rerender([st EXCEPT !.errorMessage = Null], grammarResult)
  /\ UNCHANGED <<calls, recentAnalyses>>

\* the book button while the panel is closed: setShowReferenceInput(!showReferenceInput)
ToggleReferenceInput ==
  /\ ~view.showReferenceInput
  /\ Rerender([st EXCEPT !.showReferenceInput = ~view.showReferenceInput], grammarResult)
  /\ UNCHANGED <<calls, recentAnalyses>>

\* the close button of the reference panel: setShowReferenceInput(false),
\* setReferenceText(""), setUseReferenceValidation(false)
CloseReference ==
  /\ view.showReferenceInput
  /\ Rerender([st EXCEPT !.showReferenceInput = FALSE, !.referenceText = <<>>,
                         !.useReferenceValidation = FALSE],
              grammarResult)
  /\ UNCHANGED <<calls, recentAnalyses>>

\* the checkbox of the reference panel: setUseReferenceValidation(e.target.checked)
SetUseReferenceValidation ==
  /\ view.showReferenceInput /\ ~view.useReferenceValidation
  /\ Rerender([st EXCEPT !.useReferenceValidation = TRUE], grammarResult)
  /\ UNCHANGED <<calls, recentAnalyses>>

\* the textarea of the reference panel: setReferenceText(e.target.value)
SetReferenceText ==
  /\ view.showReferenceInput
  /\ \E value \in {REF_text} :
       /\ value # view.referenceText
       /\ Rerender([st EXCEPT !.referenceText = value], grammarResult)
  /\ UNCHANGED <<calls, recentAnalyses>>

\* const textToAnalyze = inputText || currentText
textToAnalyze == IF view.inputText # <<>> THEN view.inputText ELSE view.currentText

\* the three requests handleAnalyze starts, and what its closure holds;
\* shown is what the Analyzer displayed when the analysis was asked for
NewCall ==
  [finalText |-> textToAnalyze, file |-> view.selectedFile,
   useReferenceValidation |-> view.useReferenceValidation,
   showReferenceInput |-> view.showReferenceInput,
   referenceText |-> view.referenceText,
   diag |-> Pending, comp |-> Pending, grammar |-> Pending,
   pc |-> "awaitAll", mounted |-> TRUE,
   shown |-> [currentText |-> view.currentText, diagnosisResult |-> view.diagnosisResult,
              complexityResult |-> view.complexityResult, currentIssues |-> view.currentIssues,
              grammarResult |-> view.grammarResult]]

\* handleAnalyze up to its first await (activeIssue is not part of the
\* model); limit bounds the analyses that are saved or under way
handleAnalyzeWithin(limit) ==
  LET cleared == [st EXCEPT !.errorMessage = Null] IN
  IF Trim(textToAnalyze) = <<>> /\ view.selectedFile = Null
  THEN /\ Rerender([cleared EXCEPT !.errorMessage = Some(MSG_enter_text)], grammarResult)
       /\ UNCHANGED <<calls, recentAnalyses>>
  ELSE IF view.selectedFile = Null /\ Len(Trim(textToAnalyze)) < MinTextLength
  THEN /\ Rerender([cleared EXCEPT !.errorMessage = Some(MSG_too_short)], grammarResult)
       /\ UNCHANGED <<calls, recentAnalyses>>
  ELSE IF view.isLoading
  THEN /\ Rerender(cleared, grammarResult)
       /\ UNCHANGED <<calls, recentAnalyses>>
  ELSE /\ Len(calls) < MaxCalls
       /\ Len(calls) + Len(recentAnalyses) < limit
       /\ Rerender([cleared EXCEPT !.isLoading = TRUE,
                                   !.currentText = textToAnalyze,
                                   !.inputText = <<>>],
                   grammarResult)
       /\ calls' = Append(calls, NewCall)
       /\ UNCHANGED recentAnalyses

handleAnalyze == handleAnalyzeWithin(MaxSaved)

\* the send button: onClick={handleAnalyze},
\* disabled={(!inputText.trim() && !selectedFile) || isLoading}
ClickAnalyzeWithin(limit) ==
  /\ ~((Trim(view.inputText) = <<>> /\ view.selectedFile = Null) \/ view.isLoading)
  /\ handleAnalyzeWithin(limit)

ClickAnalyze == ClickAnalyzeWithin(MaxSaved)

\* handleKeyDown: Enter without shift calls handleAnalyze
KeyEvents == {[key |-> "Enter", shiftKey |-> FALSE], [key |-> "Enter", shiftKey |-> TRUE]}

handleKeyDownWithin(limit) ==
  \E e \in KeyEvents :
    /\ app.activeView = "dashboard"
    /\ IF e.key = "Enter" /\ ~e.shiftKey THEN handleAnalyzeWithin(limit) ELSE UNCHANGED vars

handleKeyDown == handleKeyDownWithin(MaxSaved)

Remove(seq, i) == SubSeq(seq, 1, i - 1) \o SubSeq(seq, i + 1, Len(seq))

AllFulfilled(call) ==
  /\ call.diag.state = "fulfilled"
  /\ call.comp.state = "fulfilled"
  /\ call.grammar.state = "fulfilled"

\* the end of the try block, then finally: the results are set, the
\* analysis is handed to onSaveAnalysis, loading ends; the setters of an
\* Analyzer that was unmounted do nothing
Finish(i, call, s, diag) ==
  /\ st' = IF call.mounted THEN SetResultsFinally(s, diag, call.comp.value[1]) ELSE st
  /\ grammarResult' = IF call.mounted THEN call.grammar.value[1] ELSE grammarResult
  /\ recentAnalyses' = handleSaveAnalysis(recentAnalyses, CachedAnalysis(call, diag, call.comp.value[1]))
  /\ calls' = Remove(calls, i)

\* what follows the settling of one of the three requests of calls[i], call
\* being calls[i] with that request settled as promise p
Continue(i, call, p) ==
  IF p.state = "rejected"
  THEN \* Promise.all rejects with the first rejection: catch, finally; what
       \* the other requests settle to is ignored
       /\ st' = IF call.mounted THEN CatchFinally(st, p.error[1]) ELSE st
       /\ calls' = Remove(calls, i)
       /\ UNCHANGED <<grammarResult, recentAnalyses>>
  ELSE IF ~AllFulfilled(call)
  THEN /\ calls' = [calls EXCEPT ![i] = call]
       /\ UNCHANGED <<grammarResult, st, recentAnalyses>>
  ELSE LET diag == call.diag.value[1]
           s == IF call.mounted /\ diag.analyzed_text # Null /\ diag.analyzed_text[1] # <<>>
                THEN [st EXCEPT !.currentText = diag.analyzed_text[1]]
                ELSE st
       IN IF WantsValidation(call)
          THEN /\ st' = s
               /\ calls' = [calls EXCEPT ![i] = [call EXCEPT !.pc = "awaitValidation"]]
               /\ UNCHANGED <<grammarResult, recentAnalyses>>
          ELSE Finish(i, call, s, diag)

\* the request of analyzeStudentWorkAPI of calls[i] settles on response
DiagSettlesWith(i, response) ==
  /\ calls[i].pc = "awaitAll"
  /\ calls[i].diag.state = "pending"
  /\ LET p == analyzeStudentWorkAPI(response)
     IN Continue(i, [calls[i] EXCEPT !.diag = p], p)
  /\ UNCHANGED <<view, card, componentVars, app, appView, localStorage>>

DiagSettles ==
  \E i \in 1..Len(calls) : \E response \in StudentResponses : DiagSettlesWith(i, response)

\* the request of classifyTextComplexityAPI of calls[i] settles on response
CompSettlesWith(i, response) ==
  /\ calls[i].pc = "awaitAll"
  /\ calls[i].comp.state = "pending"
  /\ LET p == classifyTextComplexityAPI(response)
     IN Continue(i, [calls[i] EXCEPT !.comp = p], p)
  /\ UNCHANGED <<view, card, componentVars, app, appView, localStorage>>

CompSettles ==
  \E i \in 1..Len(calls) : \E response \in ComplexityResponses : CompSettlesWith(i, response)

\* the request of checkGrammar(..).catch(() => null) of calls[i] settles on response
GrammarSettlesWith(i, response) ==
  /\ calls[i].pc = "awaitAll"
  /\ calls[i].grammar.state = "pending"
  /\ LET p == CatchNull(checkGrammar(response))
     IN Continue(i, [calls[i] EXCEPT !.grammar = p], p)
  /\ UNCHANGED <<view, card, componentVars, app, appView, localStorage>>

GrammarSettles ==
  \E i \in 1..Len(calls) : \E response \in GrammarResponses : GrammarSettlesWith(i, response)

\* validateContentWithGemini settles (it catches its own failures):
\* diag.contentValidation = contentResult, then the end of the try block
ValidationSettles ==
  \E i \in 1..Len(calls) : \E contentResult \in ValidationResults :
    /\ calls[i].pc = "awaitValidation"
    /\ Finish(i, calls[i], st,
              [calls[i].diag.value[1] EXCEPT !.contentValidation = Some(contentResult)])
    /\ UNCHANGED <<view, card, componentVars, app, appView, localStorage>>

\* Navigation: onViewChange={setActiveView}.  Leaving 'dashboard' unmounts
\* the Analyzer, whose state is lost; the calls of handleAnalyze that are
\* awaiting go on.  Coming back mounts a new Analyzer.
onViewChange ==
  \E v \in Views :
    /\ v # app.activeView
    /\ app' = [app EXCEPT !.activeView = v]
    /\ st' = InitialState
    /\ grammarResult' = Null
    /\ view' = Shown(InitialState, Null)
    /\ calls' = [i \in 1..Len(calls) |-> [calls[i] EXCEPT !.mounted = FALSE]]
    /\ UNCHANGED <<card, componentVars, recentAnalyses, appView, localStorage>>

Next ==
  \/ onViewChange
  \/ handleInputChange
  \/ processFileAsStudent
  \/ RemoveSelectedFile
  \/ DismissError
  \/ ToggleReferenceInput
  \/ CloseReference
  \/ SetUseReferenceValidation
  \/ SetReferenceText
  \/ ClickAnalyze
  \/ handleKeyDown
  \/ DiagSettles
  \/ CompSettles
  \/ GrammarSettles
  \/ ValidationSettles
  \/ Render

Spec == Init /\ [][Next]_vars

(* ----------------------------------------------------------------------- *)
(* Properties of the score card                                            *)
(* ----------------------------------------------------------------------- *)
Rendered == card # Null
Props == grammarResult[1]
Values == card[1]

D_28 == DInt(28)

\* the weight tables as the specification states them
SpecTypeWeight(type) ==
  CASE type = "spelling"       -> DLit(20, 10)
    [] type = "grammar"        -> DLit(15, 10)
    [] type = "punctuation"    -> DLit(8, 10)
    [] type = "style"          -> DLit(6, 10)
    [] type = "capitalization" -> DLit(4, 10)

SpecSeverityMultiplier(severity) ==
  CASE severity = "error"   -> DLit(12, 10)
    [] severity = "warning" -> DLit(8, 10)
    [] severity = "info"    -> DLit(5, 10)

\* the inputs whose message or rule identifier names a capitalization problem
NamesCapitalization(issue) ==
  \/ issue.message \in {MSG_capital, MSG_titik}
  \/ issue.rule_id \in {Some(RULE_cap), Some(RULE_proper), Some(RULE_name)}

InDataModel(issue) ==
  issue.type \in DataModelTypes /\ issue.severity \in DataModelSeverities

\* the sum of the weights of a list, added in list order
RECURSIVE SumInOrder(_, _)
SumInOrder(Weight(_), l) ==
  IF l = <<>> THEN D_0
  ELSE DAdd(SumInOrder(Weight, SubSeq(l, 1, Len(l) - 1)), Weight(l[Len(l)]))

Clamp0To100(x) == IF x.neg THEN D_0 ELSE IF DLess(D_100, x) THEN D_100 ELSE x

Overlap(i, j) == i.offset < j.offset + j.length /\ j.offset < i.offset + i.length

C2_ScoreFormula ==
  (Rendered /\ Values.totalWords > 0) =>
     /\ Values.grammarScore =
          Clamp0To100(DSub(D_100,
             DMul(DDivInt(SumInOrder(IssueWeight, Props.issues), Values.totalWords), D_100)))
     /\ (/\ Props.text = TEXT_five
         /\ Props.issues = << Issue("spelling", "error", MSG_plain, Some(RULE_plain), 0, 3),
                              Issue("grammar", "warning", MSG_plain, Null, 12, 2) >>)
        => (Values.totalWords = 5 /\ Values.grammarScore = D_28 /\ Values.shown = 28)

\* the scenario of C2 has been rendered
C2_Witness ==
  /\ Rendered
  /\ Props.text = TEXT_five
  /\ Props.issues = << Issue("spelling", "error", MSG_plain, Some(RULE_plain), 0, 3),
                       Issue("grammar", "warning", MSG_plain, Null, 12, 2) >>

\* C3: an issue of the data model that is no capitalization issue weighs
\* typeWeight(type) * severityMultiplier(severity), with the fixed tables.
C3_TypeTimesSeverity ==
  (Rendered /\ \A k \in 1..Len(Props.issues) :
                  InDataModel(Props.issues[k]) /\ ~NamesCapitalization(Props.issues[k]))
  => Values.weightedErrors =
       SumInOrder(LAMBDA i : DMul(SpecTypeWeight(i.type), SpecSeverityMultiplier(i.severity)),
                  Props.issues)

\* a single punctuation issue of severity info has been weighed
C3_Witness ==
  /\ Rendered
  /\ Props.issues = << Issue("punctuation", "info", MSG_plain, Null, 0, 3) >>
  /\ Values.weightedErrors = DMul(DLit(8, 10), DLit(5, 10))

\* C4: an issue whose message or rule identifier names a capitalization
\* problem weighs 0.4 * severityMultiplier(severity) whatever its type.
C4_CapitalizationOverride ==
  (Rendered /\ Len(Props.issues) = 1 /\ NamesCapitalization(Props.issues[1])
            /\ Props.issues[1].severity \in DataModelSeverities)
  => Values.weightedErrors =
       DMul(DLit(4, 10), SpecSeverityMultiplier(Props.issues[1].severity))

\* a spelling error whose message mentions a capital letter weighs 0.4 * 1.2
C4_Witness ==
  /\ Rendered
  /\ Props.issues = << Issue("spelling", "error", MSG_capital, Null, 0, 3) >>
  /\ Values.weightedErrors = DMul(DLit(4, 10), DLit(12, 10))
  /\ Values.weightedErrors # DMul(DLit(20, 10), DLit(12, 10))

\* C5: two issues, overlapping or not, are penalised by the sum of both
\* full weights; an overlapping spelling error and grammar error on a
\* 10-word text show the score 58.
C5_OverlapIndependence ==
  (Rendered /\ Len(Props.issues) = 2) =>
     /\ Values.weightedErrors =
          DAdd(IssueWeight(Props.issues[1]), IssueWeight(Props.issues[2]))
     /\ (/\ Props.text = TEXT_ten
         /\ Props.issues = << Issue("spelling", "error", MSG_plain, Some(RULE_plain), 0, 3),
                              Issue("grammar", "error", MSG_plain, Null, 2, 3) >>)
        => (Values.totalWords = 10 /\ Values.shown = 58)

\* the overlapping pair of C5 has been rendered
C5_Witness ==
  /\ Rendered
  /\ Props.text = TEXT_ten
  /\ Props.issues = << Issue("spelling", "error", MSG_plain, Some(RULE_plain), 0, 3),
                       Issue("grammar", "error", MSG_plain, Null, 2, 3) >>
  /\ Overlap(Props.issues[1], Props.issues[2])

\* C6: a text of zero words scores 100 whatever the issues.
C6_ZeroWords ==
  (Rendered /\ Values.totalWords = 0) => (Values.grammarScore = D_100 /\ Values.shown = 100)

\* a text of white space only with three issues
C6_Witness ==
  Rendered /\ Props.text = TEXT_blank /\ Len(Props.issues) = 3 /\ Values.totalWords = 0

\* C7: an empty issue list scores exactly 100 for every word count > 0.
C7_ZeroIssues ==
  (Rendered /\ Props.issues = <<>> /\ Values.totalWords > 0)
  => (Values.grammarScore = D_100 /\ Values.shown = 100)

\* a ten-word text without issues
C7_Witness ==
  Rendered /\ Props.issues = <<>> /\ Values.totalWords = 10

\* the issue list l in the order p
Reorder(l, p) == [k \in 1..Len(l) |-> l[p[k]]]

\* C8: the score does not depend on the order of the issue list.
C8_OrderIndependent ==
  Rendered =>
    \A p \in Permutations(1..Len(Props.issues)) :
       RenderCard([text |-> Props.text, issues |-> Reorder(Props.issues, p)]).shown
         = Values.shown

(* ----------------------------------------------------------------------- *)
(* Properties of handleAnalyze                                             *)
(* ----------------------------------------------------------------------- *)
\* str without its leading and trailing white space
FirstInk(str) == CHOOSE i \in 1..Len(str) : str[i] \notin WhiteSpace /\ \A j \in 1..(i - 1) : str[j] \in WhiteSpace
LastInk(str) == CHOOSE i \in 1..Len(str) : str[i] \notin WhiteSpace /\ \A j \in (i + 1)..Len(str) : str[j] \in WhiteSpace
Trimmed(str) ==
  IF \A i \in 1..Len(str) : str[i] \in WhiteSpace THEN <<>>
  ELSE SubSeq(str, FirstInk(str), LastInk(str))

\* the request handleAnalyze is about to make has no file and fewer than
\* 15 characters of text after trimming
ShortRequest ==
  /\ view.selectedFile = Null
  /\ Len(Trimmed(textToAnalyze)) < MinTextLength

\* the step issues no request and leaves loading, the displayed text and
\* the results as they were
NothingStarted ==
  /\ calls' = calls
  /\ st'.isLoading = st.isLoading
  /\ st'.currentText = st.currentText
  /\ st'.diagnosisResult = st.diagnosisResult
  /\ st'.complexityResult = st.complexityResult
  /\ st'.currentIssues = st.currentIssues
  /\ grammarResult' = grammarResult
  /\ recentAnalyses' = recentAnalyses

\* C9 (as stated): every call of handleAnalyze with no attached file and a
\* text that is shorter than 15 characters after trimming starts nothing
\* and sets the 'too short' message.
C9_AlwaysTooShortMessage ==
  [][(handleAnalyze /\ ShortRequest)
       => (NothingStarted /\ st'.errorMessage = Some(MSG_too_short))]_vars

\* C9 (amended): every call of handleAnalyze with no attached file and a
\* text that is shorter than 15 characters after trimming issues no request
\* and leaves loading, the displayed text and the results unchanged; the
\* message it sets is the 'too short' message when the trimmed text has 1 to
\* 14 characters, and the 'please enter text' message when it is empty.
C9_ShortTextRejected ==
  [][(handleAnalyze /\ ShortRequest)
       => /\ NothingStarted
          /\ st'.errorMessage = Some(IF Trimmed(textToAnalyze) = <<>>
                                     THEN MSG_enter_text ELSE MSG_too_short)]_vars

\* results are on screen, a text of 14 characters between spaces was typed
\* and handleAnalyze has answered it with the 'too short' message
C9_Witness ==
  /\ st.errorMessage = Some(MSG_too_short)
  /\ st.inputText = INPUT_short
  /\ st.selectedFile = Null
  /\ hasResults(st) /\ ~st.isLoading
  /\ calls = <<>>

\* the message the user is to see for a rejection with this message
ShownFor(message) ==
  IF Includes(message, STR_too_short) THEN MSG_content_too_short
  ELSE IF message = <<>> THEN MSG_unexpected
  ELSE message

\* the step shows the failure of promise p, if p is rejected
FailureShown(p) ==
  p.state = "rejected" =>
    /\ st'.errorMessage # Null
    /\ st'.errorMessage = Some(ShownFor(p.error[1]))

\* C10 (as stated): whenever the proficiency or the complexity request of
\* an analysis is rejected, the step sets errorMessage: to the
\* text-too-short message when the rejection's message contains 'too
\* short', else to the rejection's own message, or to the generic message
\* when it has none; errorMessage is never null after the step.
C10_EveryRejectionShown ==
  [][\A i \in 1..Len(calls) :
       /\ \A response \in StudentResponses :
            DiagSettlesWith(i, response) => FailureShown(analyzeStudentWorkAPI(response))
       /\ \A response \in ComplexityResponses :
            CompSettlesWith(i, response) => FailureShown(classifyTextComplexityAPI(response))]_vars

\* C10 (amended): the same, for the analyses whose Analyzer is still
\* mounted when the request is rejected (the user has not left the
\* dashboard view since the analysis started).
C10_RejectionShown ==
  [][\A i \in 1..Len(calls) :
       calls[i].mounted =>
         /\ \A response \in StudentResponses :
              DiagSettlesWith(i, response) => FailureShown(analyzeStudentWorkAPI(response))
         /\ \A response \in ComplexityResponses :
              CompSettlesWith(i, response) => FailureShown(classifyTextComplexityAPI(response))]_vars

\* the backend has rejected an analysis with a 'too short' detail and the
\* analyzer shows the text-too-short message, loading ended
C10_Witness ==
  /\ st.errorMessage = Some(MSG_content_too_short)
  /\ ~st.isLoading
  /\ st.selectedFile = Null
  /\ calls = <<>>

\* C11: a verdict is never mutated after it was received: when an analysis
\* whose proficiency result had been received ends and is saved, the
\* diagnosis the analyzer shows and the one in the cached copy are, field
\* for field, the result as the request delivered it, and so is the
\* complexity result.
C11_VerdictNeverMutated ==
  [][\A i \in 1..Len(calls) :
       (/\ calls[i].diag.state = "fulfilled"
        /\ calls[i].comp.state = "fulfilled"
        /\ Len(calls') < Len(calls)
        /\ Len(recentAnalyses') > Len(recentAnalyses))
       => /\ st'.diagnosisResult = calls[i].diag.value
          /\ st'.complexityResult = calls[i].comp.value
          /\ recentAnalyses'[1].diagnosisResult = calls[i].diag.value[1]
          /\ recentAnalyses'[1].complexityResult = calls[i].comp.value[1]]_vars

\* the step ends a call of handleAnalyze whose Analyzer was unmounted
AbandonedCompletes ==
  \E i \in 1..Len(calls) : ~calls[i].mounted /\ calls' = Remove(calls, i)

\* C12: the completion of an analysis that was abandoned (the dashboard
\* view was left while its requests were in flight) changes no shared
\* state: the steps that end it leave the recent-analyses list and the
\* other App state as they were.
C12_AbandonedChangesNothing ==
  [][AbandonedCompletes => (recentAnalyses' = recentAnalyses /\ app' = app)]_vars

\* ---------------------------------------------------------------------------
\* CEFR vocabulary: the classifier of the backend and what the Analyzer shows
\* of its groups (the "CEFR Vocabulary" card and the proficient-word highlight
\* of InteractiveEditor)
\* ---------------------------------------------------------------------------

\* longest text, in words
MaxWords == 3

WORD_the == <<"t", "h", "e">>
WORD_shift == <<"s", "h", "i", "f", "t">>
WORD_Ubiquitous == <<"U", "b", "i", "q", "u", "i", "t", "o", "u", "s">>
WORD_paradigm == <<"p", "a", "r", "a", "d", "i", "g", "m">>
WORD_bahay == <<"b", "a", "h", "a", "y">>
Words == {WORD_the, WORD_shift, WORD_Ubiquitous, WORD_paradigm, WORD_bahay}

\* the word parts that segmentText.split(/(\b\w+\b)/g) yields for a text; the
\* separators between them are never lexicon words and are left out
WordLists == UNION {[1..n -> Words] : n \in 1..MaxWords}

Languages == {"English", "Filipino"}

\* the static lexicon, keyed by the normalized (lower-cased) word form; "none"
\* for a word it does not hold
CefrLexicon(word) ==
  CASE word = WORD_the -> "A1"
    [] word = WORD_shift -> "B1"
    [] word = ToLowerCase(WORD_Ubiquitous) -> "C1"
    [] word = WORD_paradigm -> "C2"
    [] OTHER -> "none"

RECURSIVE UniqueNormalized(_)
\* the normalized words in first-occurrence order
UniqueNormalized(words) ==
  IF words = <<>> THEN <<>>
  ELSE LET front == UniqueNormalized(SubSeq(words, 1, Len(words) - 1))
           last == ToLowerCase(words[Len(words)])
       IN IF \E i \in 1..Len(front) : front[i] = last THEN front ELSE Append(front, last)

InBands(words, bands) ==
  LET InBand(word) == CefrLexicon(word) \in bands
  IN SelectSeq(UniqueNormalized(words), InBand)

EmptyGroups == [basic |-> <<>>, independent |-> <<>>, proficient |-> <<>>]

\* classifyVocabulary without the language gate
classifyVocabulary_AnyLanguage(words, language) ==
  [basic |-> InBands(words, {"A1", "A2"}),
   independent |-> InBands(words, {"B1", "B2"}),
   proficient |-> InBands(words, {"C1", "C2"})]

\* classifyVocabulary(words, language) -> CEFRWordGroups
classifyVocabulary(words, language) ==
  IF language # "English" THEN EmptyGroups
  ELSE [basic |-> InBands(words, {"A1", "A2"}),
        independent |-> InBands(words, {"B1", "B2"}),
        proficient |-> InBands(words, {"C1", "C2"})]

\* the diagnosis the backend returns for a text in a language, as far as the
\* vocabulary display reads it
VocabDiagnosis(words, language) ==
  [metrics |-> [cefrWordGroups |-> Some(classifyVocabulary(words, language))]]

\* what the grammar check, a separate request with its own language
\* detection, left in grammarResult: nothing (it failed) or a response
GrammarDetections ==
  {Null, Some([detected_language |-> "en"]), Some([detected_language |-> "tl"])}

CardLimit == 12

\* list.slice(0, 12)
Slice(list) == SubSeq(list, 1, IF Len(list) < CardLimit THEN Len(list) ELSE CardLimit)

\* the "CEFR Vocabulary" result card: Null when it is not rendered, else the
\* words it lists in each group
CefrCard(diagnosisResult, result) ==
  IF /\ diagnosisResult # Null
     /\ diagnosisResult[1].metrics.cefrWordGroups # Null
     /\ ~(result # Null /\ result[1].detected_language = "tl")
  THEN LET groups == diagnosisResult[1].metrics.cefrWordGroups[1]
       IN Some([basic |-> Slice(groups.basic),
                independent |-> Slice(groups.independent),
                proficient |-> Slice(groups.proficient)])
  ELSE Null

\* the prop proficientWords of InteractiveEditor
proficientWords(diagnosisResult) ==
  IF diagnosisResult # Null /\ diagnosisResult[1].metrics.cefrWordGroups # Null
  THEN diagnosisResult[1].metrics.cefrWordGroups[1].proficient
  ELSE <<>>

proficientSet(words) == {ToLowerCase(words[i]) : i \in 1..Len(words)}

\* renderWithProficientHighlight: for each word part, whether it gets the
\* proficient highlight
renderWithProficientHighlight(parts, words) ==
  [i \in 1..Len(parts) |-> ToLowerCase(parts[i]) \in proficientSet(words)]

VocabInit ==
  /\ vocab = VocabIdle
  /\ grammarResult = Null
  /\ st = InitialState
  /\ view = Shown(InitialState, Null)
  /\ card = Null
  /\ calls = <<>>
  /\ recentAnalyses = <<>>
  /\ app = AppLoaded
  /\ appView = Some(AppShown(AppLoaded, <<>>))
  /\ localStorage = StorageLoaded
  /\ classification = ClassificationIdle
  /\ debounce = DebounceIdle(DefaultDelay)
  /\ evaluation = EvaluationIdle
  /\ validation = ValidationIdle
  /\ highlight = HighlightIdle

nonVocabVars ==
  <<grammarResult, card, st, view, calls, recentAnalyses, app, appView, localStorage,
    classification, debounce, evaluation, validation,
    highlight>>

\* an analysis of a text has come back and the Analyzer has rendered it
ShowVocabulary ==
  /\ vocab.pc = "idle"
  /\ \E words \in WordLists, language \in Languages, result \in GrammarDetections :
       LET diagnosisResult == Some(VocabDiagnosis(words, language))
       IN vocab' = [pc |-> "shown",
                    words |-> words,
                    language |-> language,
                    grammarResult |-> result,
                    diagnosisResult |-> diagnosisResult,
                    cefrCard |-> CefrCard(diagnosisResult, result),
                    highlighted |-> renderWithProficientHighlight(words, proficientWords(diagnosisResult))]
  /\ UNCHANGED nonVocabVars

\* the Analyzer is mounted anew (the view was left and entered again): no
\* diagnosis and no grammar result
ClearVocabulary ==
  /\ vocab.pc = "shown"
  /\ vocab' = VocabIdle
  /\ UNCHANGED nonVocabVars

VocabNext == ShowVocabulary \/ ClearVocabulary

VocabSpec == VocabInit /\ [][VocabNext]_vars

MaxFeature == 2

ProficiencyLevel == <<"Beginning", "Developing", "Proficient", "Advanced">>
ComplexityLevel == <<"Literal", "Inferential", "Evaluative">>
Kinds == {"proficiency", "complexity"}
LevelsOf(kind) == IF kind = "proficiency" THEN ProficiencyLevel ELSE ComplexityLevel

\* the features the fallback reads, each on a scale 0..MaxFeature
FeatureVectors == [ttr : 0..MaxFeature, advancedRatio : 0..MaxFeature]

\* confidence in percent
Confidences == {0, 50, 100}

\* the persisted (scaler, model) pair: present, or missing from the build
Artifacts == {"present", "missing"}

\* predict(vector) of the trained classifier: the labels the persisted model
\* can give; the model itself is data, any label of the enumeration is possible
TrainedResults(kind) ==
  {[label |-> LevelsOf(kind)[i], confidence |-> c, provenance |-> "trained"] :
     i \in 1..Len(LevelsOf(kind)), c \in Confidences}

\* the heuristic fallback: fixed thresholds over the vector, monotonic in each
\* feature
HeuristicResult(kind, vector) ==
  LET sum == vector.ttr + vector.advancedRatio
      top == Len(LevelsOf(kind))
      band == IF sum + 1 > top THEN top ELSE sum + 1
  IN [label |-> LevelsOf(kind)[band], confidence |-> 50, provenance |-> "heuristic"]

\* the ClassificationResults a request can get: ModelUnavailable is not
\* surfaced, it selects the fallback
ClassificationResults(kind, vector, artifact) ==
  IF artifact = "present" THEN TrainedResults(kind) ELSE {HeuristicResult(kind, vector)}

\* the fields of StudentDiagnosisResult and of TextComplexityResult
ResultFields(kind) ==
  IF kind = "proficiency"
  THEN {"proficiency", "feedback", "metrics", "issues", "contentValidation", "analyzed_text",
        "natScore", "learningBand", "philIriLevel"}
  ELSE {"level", "score", "reasoning", "readabilityScore", "wordCount", "keywords",
        "analyzed_text", "fixationDuration", "regressionIndex", "estimatedReadingTime",
        "avgSentenceLength", "difficultWordRatio", "highlightedSegments"}

\* the result delivered to the caller: the label in the field the type has
\* for it; the values of the other fields do not depend on the scoring path
\* and are left as "-"
Verdict(kind, result) ==
  [f \in ResultFields(kind) |->
     IF f = (IF kind = "proficiency" THEN "proficiency" ELSE "level") THEN result.label ELSE "-"]

ClassifyInit ==
  /\ classification = ClassificationIdle
  /\ vocab = VocabIdle
  /\ grammarResult = Null
  /\ st = InitialState
  /\ view = Shown(InitialState, Null)
  /\ card = Null
  /\ calls = <<>>
  /\ recentAnalyses = <<>>
  /\ app = AppLoaded
  /\ appView = Some(AppShown(AppLoaded, <<>>))
  /\ localStorage = StorageLoaded
  /\ debounce = DebounceIdle(DefaultDelay)
  /\ evaluation = EvaluationIdle
  /\ validation = ValidationIdle
  /\ highlight = HighlightIdle

nonClassificationVars ==
  <<grammarResult, card, st, view, calls, recentAnalyses, app, appView, localStorage, vocab,
    debounce, evaluation, validation,
    highlight>>

\* one analysis request is classified and its result is delivered
Classify ==
  /\ classification.pc = "idle"
  /\ \E kind \in Kinds, vector \in FeatureVectors, artifact \in Artifacts :
       \E result \in ClassificationResults(kind, vector, artifact) :
         classification' = [pc |-> "delivered",
                            kind |-> kind,
                            vector |-> vector,
                            artifact |-> artifact,
                            result |-> result,
                            delivered |->
                              IF kind = "proficiency"
                              THEN analyzeStudentWorkAPI(HttpOk(Verdict(kind, result)))
                              ELSE classifyTextComplexityAPI(HttpOk(Verdict(kind, result)))]
  /\ UNCHANGED nonClassificationVars

\* the caller is done with the result
NextRequest ==
  /\ classification.pc = "delivered"
  /\ classification' = ClassificationIdle
  /\ UNCHANGED nonClassificationVars

ClassifyNext == Classify \/ NextRequest

ClassifySpec == ClassifyInit /\ [][ClassifyNext]_vars

\* C14: every classification result delivered to the caller carries a
\* provenance flag, trained or heuristic, that records the scoring path that
\* produced it, and a missing model artifact is never an error of the call
C14_ProvenanceDelivered ==
  classification.pc = "delivered" =>
    /\ classification.delivered.state = "fulfilled"
    /\ "provenance" \in DOMAIN classification.delivered.value[1]
    /\ classification.delivered.value[1].provenance =
         (IF classification.artifact = "present" THEN "trained" ELSE "heuristic")

\* ---------------------------------------------------------------------------
\* Debounced grammar check: createDebouncedGrammarCheck and its use by the
\* GrammarChecker component. Time is in ms and advances in steps of TickMs; a
\* timer fires when it is due, before time advances further
\* ---------------------------------------------------------------------------

\* createDebouncedGrammarCheck(1500) in GrammarChecker
GrammarCheckerDelay == 1500
\* the step of the clock: the largest one that meets both delays
TickMs == GrammarCheckerDelay - DefaultDelay
\* the clock stops after this many steps
MaxTicks == 8
MaxTime == MaxTicks * TickMs
\* most calls of debounced checkers
MaxDebounced == 3

Delays == {DefaultDelay, GrammarCheckerDelay}

TEXT_a == <<"a">>
TEXT_ab == <<"a", "b">>
CheckedTexts == {TEXT_a, TEXT_ab}

\* createDebouncedGrammarCheck(delay): a new closure with timeoutId = null;
\* the checker is named by its index in timeoutId
createDebouncedGrammarCheck(d) == [d EXCEPT !.timeoutId = Append(@, Null)]

\* clearTimeout that cancels nothing
clearTimeout_Nothing(timers, id) == timers

\* clearTimeout(id): an armed timer is cancelled, a fired one is left as it is
clearTimeout(timers, id) ==
  IF timers[id].state = "armed" THEN [timers EXCEPT ![id].state = "cleared"] ELSE timers

\* the function returned by createDebouncedGrammarCheck, called on checker c
\* with (text, callback): clears the timer of timeoutId if there is one and
\* sets a new one, due delay from now
Debounced(d, c, text, callback) ==
  LET cleared == IF d.timeoutId[c] # Null THEN clearTimeout(d.timers, d.timeoutId[c][1])
                 ELSE d.timers
      timer == [checker |-> c, text |-> text, callback |-> callback, setAt |-> d.now,
                due |-> d.now + d.delay, state |-> "armed"]
  IN [d EXCEPT !.timers = Append(cleared, timer),
               !.timeoutId[c] = Some(Len(cleared) + 1)]

\* a caller of one checker created with some delay
DebounceInit ==
  /\ \E delay \in Delays : debounce = createDebouncedGrammarCheck(DebounceIdle(delay))
  /\ vocab = VocabIdle
  /\ classification = ClassificationIdle
  /\ evaluation = EvaluationIdle
  /\ validation = ValidationIdle
  /\ grammarResult = Null
  /\ st = InitialState
  /\ view = Shown(InitialState, Null)
  /\ card = Null
  /\ calls = <<>>
  /\ recentAnalyses = <<>>
  /\ app = AppLoaded
  /\ appView = Some(AppShown(AppLoaded, <<>>))
  /\ localStorage = StorageLoaded
  /\ highlight = HighlightIdle

nonDebounceVars ==
  <<grammarResult, card, st, view, calls, recentAnalyses, app, appView, localStorage, vocab,
    classification, evaluation, validation,
    highlight>>

\* the caller calls the checker with a text and a callback of its own
CallChecker ==
  /\ Len(debounce.timers) < MaxDebounced
  /\ \E text \in CheckedTexts : debounce' = Debounced(debounce, 1, text, "caller")
  /\ UNCHANGED nonDebounceVars

\* the timer callback starts: checkGrammar(text, geminiApiKey) sends the request
TimerFires ==
  /\ \E k \in 1..Len(debounce.timers) :
       /\ debounce.timers[k].state = "armed"
       /\ debounce.timers[k].due <= debounce.now
       /\ debounce' = [debounce EXCEPT
            !.timers[k].state = "fired",
            !.requests = Append(@, [timer |-> k, text |-> debounce.timers[k].text,
                                    sentAt |-> debounce.now, state |-> "pending",
                                    callbacks |-> 0])]
  /\ UNCHANGED nonDebounceVars

\* checkGrammar resolves and callback(result) runs, or it throws and the
\* catch block logs the error; the callback of the GrammarChecker is
\* setResult(checkResult); setLoading(false), and the component renders
RequestSettles ==
  /\ \E r \in 1..Len(debounce.requests), ok \in BOOLEAN :
       /\ debounce.requests[r].state = "pending"
       /\ LET callback == debounce.timers[debounce.requests[r].timer].callback
          IN debounce' =
               IF ~ok THEN [debounce EXCEPT !.requests[r].state = "failed"]
               ELSE IF callback = "caller"
                    THEN [debounce EXCEPT !.requests[r].state = "ok",
                                          !.requests[r].callbacks = @ + 1]
                    ELSE createDebouncedGrammarCheck(
                           [debounce EXCEPT !.requests[r].state = "ok",
                                            !.requests[r].callbacks = @ + 1,
                                            !.result = Some(debounce.requests[r].text),
                                            !.loading = FALSE])
  /\ UNCHANGED nonDebounceVars

\* time passes; a due timer fires first
Tick ==
  /\ debounce.now < MaxTime
  /\ \A k \in 1..Len(debounce.timers) :
       debounce.timers[k].state = "armed" => debounce.timers[k].due > debounce.now
  /\ debounce' = [debounce EXCEPT !.now = @ + TickMs]
  /\ UNCHANGED nonDebounceVars

DebounceNext == CallChecker \/ TimerFires \/ RequestSettles \/ Tick

DebounceSpec == DebounceInit /\ [][DebounceNext]_vars

\* call k of a checker is followed, on the same checker, by a call less than
\* delay later
FollowedInBurst(k) ==
  \E j \in (k + 1)..Len(debounce.timers) :
    /\ debounce.timers[j].checker = debounce.timers[k].checker
    /\ debounce.timers[j].setAt - debounce.timers[k].setAt < debounce.delay

\* call k is the last of its series: its time has come and no call of the same
\* checker came before that
LastOfBurst(k) ==
  /\ debounce.now > debounce.timers[k].due
  /\ \A j \in (k + 1)..Len(debounce.timers) :
       debounce.timers[j].checker = debounce.timers[k].checker =>
         debounce.timers[j].setAt > debounce.timers[k].due

RequestsOf(k) == {r \in 1..Len(debounce.requests) : debounce.requests[r].timer = k}

\* C15: for one checker, no request is sent for a call that is followed by
\* another less than delay later; for the last call of such a series exactly
\* one request is sent, delay after the call and with its text; a request's
\* callback runs at most once and only if the request succeeded
C15_OneRequestPerBurst ==
  /\ \A k \in 1..Len(debounce.timers) :
       /\ FollowedInBurst(k) => RequestsOf(k) = {}
       /\ LastOfBurst(k) =>
            \E r \in RequestsOf(k) :
              /\ RequestsOf(k) = {r}
              /\ debounce.requests[r].text = debounce.timers[k].text
              /\ debounce.requests[r].sentAt = debounce.timers[k].setAt + debounce.delay
  /\ \A r \in 1..Len(debounce.requests) :
       /\ debounce.requests[r].callbacks <= 1
       /\ debounce.requests[r].callbacks = 1 => debounce.requests[r].state = "ok"

\* a series of three calls, each TickMs after the previous one, has ended
\* with the request for the last text answered and its callback run
C15_Witness ==
  /\ Len(debounce.timers) = 3
  /\ debounce.timers[2].setAt = debounce.timers[1].setAt + TickMs
  /\ debounce.timers[3].setAt = debounce.timers[2].setAt + TickMs
  /\ debounce.timers[1].text = TEXT_a
  /\ debounce.timers[3].text = TEXT_ab
  /\ \E r \in RequestsOf(3) : debounce.requests[r].callbacks = 1

\* the GrammarChecker component. Its body runs
\* const debouncedCheck = createDebouncedGrammarCheck(1500) in every render,
\* so each render has a checker of its own; the effect on [text] calls the
\* checker of the render it belongs to
RenderGrammarChecker(d) == createDebouncedGrammarCheck(d)

\* the texts an edit can leave in the textarea
EditTexts == CheckedTexts \cup {TEXT_empty}

\* the mount: the first render; the effect finds text empty and
\* setResult(null) changes nothing
GrammarCheckerInit ==
  /\ debounce = RenderGrammarChecker(DebounceIdle(GrammarCheckerDelay))
  /\ vocab = VocabIdle
  /\ classification = ClassificationIdle
  /\ evaluation = EvaluationIdle
  /\ validation = ValidationIdle
  /\ grammarResult = Null
  /\ st = InitialState
  /\ view = Shown(InitialState, Null)
  /\ card = Null
  /\ calls = <<>>
  /\ recentAnalyses = <<>>
  /\ app = AppLoaded
  /\ appView = Some(AppShown(AppLoaded, <<>>))
  /\ localStorage = StorageLoaded
  /\ highlight = HighlightIdle

\* handleTextChange: setText(newText); a changed text renders the component
\* and runs the effect, which calls debouncedCheck and setLoading(true) for a
\* non-empty text and setResult(null) for an empty one; the state change of
\* the effect renders once more
handleTextChange ==
  /\ Len(debounce.timers) < MaxDebounced
  /\ \E newText \in EditTexts :
       /\ newText # debounce.text
       /\ LET rendered == RenderGrammarChecker([debounce EXCEPT !.text = newText])
              c == Len(rendered.timeoutId)
          IN debounce' =
               IF Len(newText) > 0
               THEN LET called == Debounced(rendered, c, newText, "setResult")
                    IN IF called.loading THEN called
                       ELSE RenderGrammarChecker([called EXCEPT !.loading = TRUE])
               ELSE IF rendered.result = Null THEN rendered
                    ELSE RenderGrammarChecker([rendered EXCEPT !.result = Null])
  /\ UNCHANGED nonDebounceVars

GrammarCheckerNext == handleTextChange \/ TimerFires \/ RequestSettles \/ Tick

GrammarCheckerSpec == GrammarCheckerInit /\ [][GrammarCheckerNext]_vars

\* edit k of the GrammarChecker is followed by an edit less than 1500 ms later
EditFollowedInBurst(k) ==
  \E j \in (k + 1)..Len(debounce.timers) :
    debounce.timers[j].setAt - debounce.timers[k].setAt < GrammarCheckerDelay

\* C16: in a burst of edits of the GrammarChecker, each less than 1500 ms
\* after the previous one, only the final text is sent for checking: no
\* request is sent for a text that was edited again within 1500 ms
C16_OneRequestPerEditBurst ==
  \A k \in 1..Len(debounce.timers) :
    (debounce.timers[k].callback = "setResult" /\ EditFollowedInBurst(k)) => RequestsOf(k) = {}

\* ---------------------------------------------------------------------------
\* App: the saved references and the recent analyses, their handlers, and the
\* load and save effects on localStorage
\* ---------------------------------------------------------------------------

\* number of distinct values of Date.now() at which something new is saved
MaxNewIds == 2
\* most saved references
MaxRefs == 2
\* most analyses of this session in the list
MaxSaves == 3

\* a CachedAnalysis saved at time id: id is Date.now().toString() and
\* timestamp new Date() of the same instant; title, studentText and the
\* results play no part in the handlers and are left out
Analysis(id) == [id |-> id, timestamp |-> [type |-> "Date", ms |-> id]]

\* a ReferenceFile saved at time id with the given files
Reference(id, files) == [id |-> id, files |-> files]

\* the list of n analyses as an earlier session wrote it: saved at times
\* 1..n, most recent first
StoredAnalyses(n) == JSONstringify([i \in 1..n |-> Analysis(n + 1 - i)])

\* what a session can find under the two keys: nothing, an item that does not
\* parse, or a list written by an earlier session
StoredStates ==
  [readtrack_references :
     {Null, Some(ITEM_corrupt), Some(JSONstringify(<<Reference(1, "f1")>>))},
   readtrack_analyses :
     {Null, Some(ITEM_corrupt)}
       \cup {Some(StoredAnalyses(n)) : n \in {0, RecentLimit - 1, RecentLimit}}]

\* the times of this session's saves: later than everything stored
NewIds == (RecentLimit + 1)..(RecentLimit + MaxNewIds)

\* the load effect for one key: if (saved) try { set(JSON.parse(saved).map(..)) }
\* catch { console.error }; the map leaves an entry that has its title or
\* its files as it is
LoadList(item, initial) ==
  IF item = Null THEN initial
  ELSE IF JSONparse(item[1]) = Null THEN initial
       ELSE JSONparse(item[1])[1]

\* prev.filter(a => a.id !== id)
FilterOutId(prev, id) ==
  LET Keep(entry) == entry.id # id IN SelectSeq(prev, Keep)

\* the App before its first effects have run
AppMounting ==
  [activeView |-> "dashboard", hasLoadedCache |-> FALSE, savedReferences |-> <<>>,
   selectedAnalysis |-> Null]

AppInit ==
  /\ app = AppMounting
  /\ recentAnalyses = <<>>
  /\ appView = Null
  /\ localStorage \in StoredStates
  /\ grammarResult = Null
  /\ st = InitialState
  /\ view = Shown(InitialState, Null)
  /\ card = Null
  /\ calls = <<>>
  /\ ComponentsIdle

nonAppVars == <<grammarResult, card, st, view, calls, componentVars>>

\* the effects after the first render: the load effect reads the three items
\* and sets the lists and hasLoadedCache; the save effects of the same render
\* see hasLoadedCache = false
MountEffects ==
  /\ appView = Null
  /\ app' = [app EXCEPT
       !.savedReferences = LoadList(localStorage.readtrack_references, @),
       !.hasLoadedCache = TRUE]
  /\ recentAnalyses' = LoadList(localStorage.readtrack_analyses, recentAnalyses)
  /\ appView' = Some(AppShown(app, recentAnalyses))
  /\ localStorage' = SaveEffects(localStorage, Null, AppShown(app, recentAnalyses))
  /\ UNCHANGED nonAppVars

\* the App has rendered its current state and run the effects of that render;
\* its handlers are called from what it rendered
AppRendered == appView = Some(AppShown(app, recentAnalyses))

\* the largest id of a list, 0 for an empty one
RECURSIVE MaxId(_)
MaxId(list) ==
  IF list = <<>> THEN 0
  ELSE LET rest == MaxId(Tail(list)) IN IF list[1].id > rest THEN list[1].id ELSE rest

\* onSaveAnalysis(cachedAnalysis) of the Dashboard: handleSaveAnalysis
onSaveAnalysis ==
  /\ AppRendered
  /\ Cardinality({i \in 1..Len(recentAnalyses) : recentAnalyses[i].id \in NewIds}) < MaxSaves
  /\ \E id \in NewIds :
       /\ id >= MaxId(recentAnalyses)
       /\ recentAnalyses' = handleSaveAnalysis(recentAnalyses, Analysis(id))
  /\ UNCHANGED <<app, appView, localStorage, nonAppVars>>

\* handleDeleteAnalysis(id), for the oldest and the newest stored entry and
\* this session's entries
handleDeleteAnalysis ==
  /\ AppRendered
  /\ \E id \in {1, RecentLimit} \cup NewIds :
       /\ \E i \in 1..Len(recentAnalyses) : recentAnalyses[i].id = id
       /\ recentAnalyses' = FilterOutId(recentAnalyses, id)
       /\ app' = [app EXCEPT !.selectedAnalysis =
                    IF @ # Null /\ @[1].id = id THEN Null ELSE @]
  /\ UNCHANGED <<appView, localStorage, nonAppVars>>

\* handleSelectAnalysis(analysis), for the first and the last entry shown
handleSelectAnalysis ==
  /\ AppRendered
  /\ \E i \in {1, Len(recentAnalyses)} \cap (1..Len(recentAnalyses)) :
       /\ app.selectedAnalysis # Some(recentAnalyses[i])
       /\ app' = [app EXCEPT !.selectedAnalysis = Some(recentAnalyses[i]),
                             !.activeView = "dashboard"]
  /\ UNCHANGED <<recentAnalyses, appView, localStorage, nonAppVars>>

\* handleSaveReference(name, files)
handleSaveReference ==
  /\ AppRendered
  /\ Len(app.savedReferences) < MaxRefs
  /\ \E id \in NewIds :
       /\ id >= MaxId(app.savedReferences)
       /\ app' = [app EXCEPT !.savedReferences = <<Reference(id, "f1")>> \o @]
  /\ UNCHANGED <<recentAnalyses, appView, localStorage, nonAppVars>>

\* handleDeleteReference(id)
handleDeleteReference ==
  /\ AppRendered
  /\ \E i \in 1..Len(app.savedReferences) :
       app' = [app EXCEPT !.savedReferences = FilterOutId(@, app.savedReferences[i].id)]
  /\ UNCHANGED <<recentAnalyses, appView, localStorage, nonAppVars>>

\* handleUpdateReference(id, files)
handleUpdateReference ==
  /\ AppRendered
  /\ \E i \in 1..Len(app.savedReferences) :
       /\ app.savedReferences[i].files = "f1"
       /\ app' = [app EXCEPT !.savedReferences =
                    [j \in 1..Len(@) |->
                       IF @[j].id = @[i].id THEN [@[j] EXCEPT !.files = "f2"] ELSE @[j]]]
  /\ UNCHANGED <<recentAnalyses, appView, localStorage, nonAppVars>>

AppNext ==
  \/ MountEffects
  \/ Render
  \/ onSaveAnalysis
  \/ handleDeleteAnalysis
  \/ handleSelectAnalysis
  \/ handleSaveReference
  \/ handleDeleteReference
  \/ handleUpdateReference

AppSpec == AppInit /\ [][AppNext]_vars

\* most recently saved first
NewestFirst(list) ==
  \A i \in 1..Len(list) : \A j \in i..Len(list) : list[i].timestamp.ms >= list[j].timestamp.ms

\* C17: the recent analyses are at most 20 and most recently saved first
\* after every save and delete, and a save into a list of 20 puts the new
\* entry first and drops exactly the last, oldest, one
C17_KeepsLast20 ==
  [][/\ Len(recentAnalyses') <= RecentLimit
     /\ NewestFirst(recentAnalyses')
     /\ (Len(recentAnalyses) = RecentLimit /\ recentAnalyses' # recentAnalyses
         /\ Len(recentAnalyses') = RecentLimit) =>
          /\ Tail(recentAnalyses') = SubSeq(recentAnalyses, 1, RecentLimit - 1)
          /\ \A i \in 1..RecentLimit :
               recentAnalyses[RecentLimit].timestamp.ms <= recentAnalyses[i].timestamp.ms]_vars

\* a save into the full stored list has dropped its oldest entry, the one
\* saved at time 1
C17_Witness ==
  /\ Len(recentAnalyses) = RecentLimit
  /\ recentAnalyses[1].id = RecentLimit + 1
  /\ recentAnalyses[RecentLimit].id = 2

StorageKeys == {"readtrack_references", "readtrack_analyses"}

\* both lists as the save effects write them
WrittenBack(a, analyses) ==
  [readtrack_references |-> Some(JSONstringify(a.savedReferences)),
   readtrack_analyses |-> Some(JSONstringify(analyses))]

\* C18: nothing is written to the two keys before the load has completed; the
\* first write after the load leaves a stored list as it was; and once the
\* load is done, whenever the App has rendered its state both keys hold the
\* current lists
C18_PersistsAcrossSessions ==
  [][/\ ~app.hasLoadedCache => localStorage' = localStorage
     /\ (appView # Null /\ ~appView[1].hasLoadedCache) =>
          \A key \in StorageKeys :
            (localStorage[key] # Null /\ JSONparse(localStorage[key][1]) # Null) =>
              localStorage'[key] = localStorage[key]
     /\ (app'.hasLoadedCache /\ appView' = Some(AppShown(app', recentAnalyses'))) =>
          localStorage' = WrittenBack(app', recentAnalyses')]_vars

\* a session found 20 analyses and a reference stored, loaded them, and its
\* own save and its own reference are in localStorage with them
C18_Witness ==
  /\ app.hasLoadedCache
  /\ AppRendered
  /\ Len(recentAnalyses) = RecentLimit
  /\ recentAnalyses[1].id = RecentLimit + 1
  /\ recentAnalyses[2] = ToJSON(Analysis(RecentLimit))
  /\ Len(app.savedReferences) = 2
  /\ app.savedReferences[2] = Reference(1, "f1")
  /\ localStorage = WrittenBack(app, recentAnalyses)

\* ---------------------------------------------------------------------------
\* ModelEvaluation: the metrics fetch on mount and its fallback
\* ---------------------------------------------------------------------------

\* most mounts of the component
MaxMounts == 3

\* PerformanceMetrics; f1, precision and recall in hundredths
Metrics(accuracy, f1, precision, recall, labels, matrix) ==
  [accuracy |-> accuracy, f1 |-> f1, precision |-> precision, recall |-> recall,
   labels |-> labels, matrix |-> matrix]

DEFAULT_METRICS ==
  [proficiency |->
     Metrics("94.2%", 93, 94, 92, <<"Independent", "Instructional", "Frustration">>,
             <<<<45, 5, 0>>, <<4, 52, 4>>, <<0, 3, 47>>>>),
   complexity |->
     Metrics("89.6%", 88, 90, 87, <<"Literal", "Inferential", "Evaluative">>,
             <<<<65, 8, 2>>, <<5, 52, 6>>, <<1, 7, 44>>>>)]

\* metrics the backend can report for one model
ReportedMetrics(labels) ==
  {Metrics(accuracy, f1, f1, f1, labels, <<<<1, 0, 0>>, <<0, 1, 0>>, <<0, 0, 1>>>>) :
     accuracy \in {"100.0%", "50.0%"}, f1 \in {100, 50}}

\* the bodies of /api/evaluation: what the backend computed, or by
\* coincidence the very numbers of DEFAULT_METRICS
EvaluationBodies ==
  [proficiency : ReportedMetrics(DEFAULT_METRICS.proficiency.labels),
   complexity : ReportedMetrics(DEFAULT_METRICS.complexity.labels)]
    \cup {DEFAULT_METRICS}

\* a 200 whose body is not JSON: response.json() rejects
HttpOkNoJSON ==
  [kind |-> "http", ok |-> TRUE, status |-> <<"2", "0", "0">>, detail |-> Null, body |-> Null]

EvaluationResponses ==
  {HttpOk(body) : body \in EvaluationBodies}
    \cup {HttpOkNoJSON, HttpError(<<"5", "0", "0">>, Null), NetworkFailure(ERR_failed_to_fetch)}

\* the fetch gave metrics: response.ok and a body that parses
Fetched(response) == response.kind = "http" /\ response.ok /\ response.body # Null

\* fetchMetrics whose catch block does not set the default metrics
fetchMetrics_NoDefault(e, response) ==
  IF Fetched(response)
  THEN [e EXCEPT !.metrics = response.body, !.isLoading = FALSE]
  ELSE [e EXCEPT !.isOfflineMode = TRUE, !.isLoading = FALSE]

\* fetchMetrics from the await on: try { if (!response.ok) throw ..;
\* setMetrics(await response.json()) } catch { setMetrics(DEFAULT_METRICS);
\* setIsOfflineMode(true) } finally { setIsLoading(false) }
fetchMetrics(e, response) ==
  IF Fetched(response)
  THEN [e EXCEPT !.metrics = response.body, !.isLoading = FALSE]
  ELSE [e EXCEPT !.metrics = Some(DEFAULT_METRICS), !.isOfflineMode = TRUE,
                 !.isLoading = FALSE]

EvaluationInit ==
  /\ evaluation = EvaluationIdle
  /\ vocab = VocabIdle
  /\ classification = ClassificationIdle
  /\ debounce = DebounceIdle(DefaultDelay)
  /\ validation = ValidationIdle
  /\ grammarResult = Null
  /\ st = InitialState
  /\ view = Shown(InitialState, Null)
  /\ card = Null
  /\ calls = <<>>
  /\ recentAnalyses = <<>>
  /\ app = AppLoaded
  /\ appView = Some(AppShown(AppLoaded, <<>>))
  /\ localStorage = StorageLoaded
  /\ highlight = HighlightIdle

nonEvaluationVars ==
  <<grammarResult, card, st, view, calls, recentAnalyses, app, appView, localStorage, vocab,
    classification, debounce, validation,
    highlight>>

\* the component mounts: the hooks get their initial values and the effect
\* starts fetchMetrics, which awaits the fetch
MountEvaluation ==
  /\ ~evaluation.mounted
  /\ evaluation.mounts < MaxMounts
  /\ evaluation' = [evaluation EXCEPT !.mounted = TRUE, !.fetch = "pending",
                                      !.mounts = @ + 1]
  /\ UNCHANGED nonEvaluationVars

\* the fetch of the mounted component settles and fetchMetrics runs on
FetchSettles ==
  /\ evaluation.mounted
  /\ evaluation.fetch = "pending"
  /\ \E response \in EvaluationResponses :
       evaluation' = [fetchMetrics(evaluation, response) EXCEPT
                        !.fetch = "done", !.response = Some(response)]
  /\ UNCHANGED nonEvaluationVars

\* the user leaves the view: the component and its hooks are gone; a fetch
\* that is still pending stays in flight
UnmountEvaluation ==
  /\ evaluation.mounted
  /\ evaluation' = [EvaluationIdle EXCEPT
       !.mounts = evaluation.mounts,
       !.stale = evaluation.stale + (IF evaluation.fetch = "pending" THEN 1 ELSE 0)]
  /\ UNCHANGED nonEvaluationVars

\* the fetch of a component that was unmounted settles: its setters do nothing
StaleFetchSettles ==
  /\ evaluation.stale > 0
  /\ evaluation' = [evaluation EXCEPT !.stale = @ - 1]
  /\ UNCHANGED nonEvaluationVars

EvaluationNext == MountEvaluation \/ FetchSettles \/ UnmountEvaluation \/ StaleFetchSettles

\* a fetch that was started settles in the end, one way or the other
EvaluationSpec == EvaluationInit /\ [][EvaluationNext]_vars /\ WF_vars(FetchSettles)

\* what the component shows once its fetch has settled
EvaluationSettled ==
  (evaluation.mounted /\ evaluation.fetch = "done") =>
    /\ ~evaluation.isLoading
    /\ evaluation.metrics # Null
    /\ IF Fetched(evaluation.response[1])
       THEN evaluation.metrics = evaluation.response[1].body /\ ~evaluation.isOfflineMode
       ELSE evaluation.metrics = Some(DEFAULT_METRICS) /\ evaluation.isOfflineMode

\* C19: a mounted ModelEvaluation does not stay loading: its fetch settles,
\* and then isLoading is false and metrics is non-null, the fetched metrics
\* with isOfflineMode false after a success, DEFAULT_METRICS with
\* isOfflineMode true after a network error or a non-OK status
C19_NeverStuck ==
  /\ []EvaluationSettled
  /\ (evaluation.mounted /\ evaluation.isLoading) ~>
       (~evaluation.mounted \/ (~evaluation.isLoading /\ evaluation.metrics # Null))

\* the second mount of the component shows the default metrics after a
\* non-OK status while the fetch of the first mount is still in flight
C19_Witness ==
  /\ evaluation.mounted
  /\ evaluation.mounts = 2
  /\ evaluation.stale = 1
  /\ evaluation.fetch = "done"
  /\ evaluation.response = Some(HttpError(<<"5", "0", "0">>, Null))
  /\ evaluation.metrics = Some(DEFAULT_METRICS)
  /\ evaluation.isOfflineMode

\* ---------------------------------------------------------------------------
\* validateContentWithGemini: the reference test, the AI request and the
\* fallback of the catch block
\* ---------------------------------------------------------------------------

\* shortest reference text the function takes as a reference
MinReferenceLength == 5

ContentValidation(hasReference, accuracyScore, missingPoints, misconceptions, suggestion) ==
  [hasReference |-> hasReference, accuracyScore |-> accuracyScore,
   missingPoints |-> missingPoints, misconceptions |-> misconceptions,
   suggestion |-> suggestion]

\* the value returned without a usable reference
VALIDATION_no_reference == ContentValidation(FALSE, 0, <<>>, <<>>, "")

\* the value returned from the catch block
VALIDATION_error ==
  ContentValidation(TRUE, 0, <<"Error connecting to Content Service">>, <<>>,
                    "Please try again later.")

REF_four == <<"a", "b", "c", "d">>
REF_five == <<"a", "b", "c", "d", "e">>

\* the arguments referenceText and referenceFiles; Null is undefined
ReferenceTexts == {Null, Some(TEXT_empty), Some(REF_four), Some(REF_five), Some(REF_text)}
ReferenceFileLists == {Null, Some(<<>>), Some(<<FILE_image>>)}
StudentTexts == {INPUT_ok, OCR_text}

\* !referenceText || referenceText.length < 5, and
\* !referenceFiles || referenceFiles.length === 0
NoUsableReference(referenceText, referenceFiles) ==
  /\ referenceText = Null \/ Len(referenceText[1]) = 0 \/ Len(referenceText[1]) < MinReferenceLength
  /\ referenceFiles = Null \/ Len(referenceFiles[1]) = 0

\* the values JSON.parse can give for the answer of the model: an object of
\* the response schema, the empty object of the text '{}', or null
JS_null == [null |-> TRUE]
EmptyObject == [object |-> "{}"]

\* the empty text, which is falsy
ITEM_empty == [valid |-> FALSE, value |-> <<>>, empty |-> TRUE]
AnswerObjects ==
  {ContentValidation(hasReference, accuracyScore, <<>>, <<>>, "ok") :
     hasReference \in BOOLEAN, accuracyScore \in {0, 80, 100}}

\* how ai.models.generateContent can end: it rejects, or it resolves with a
\* result whose text is undefined, empty, not JSON, or JSON
GenerateContentOutcomes ==
  {[rejects |-> TRUE, text |-> Null]}
    \cup {[rejects |-> FALSE, text |-> text] :
            text \in {Null, Some(ITEM_empty), Some(ITEM_corrupt)}
                       \cup {Some(JSONstringify(<<value>>)) :
                               value \in AnswerObjects \cup {JS_null, EmptyObject}}}

\* JSON.parse(result.text || '{}'): Some(value), or Null when it throws
ParseAnswer(text) ==
  IF text = Null \/ text = Some(ITEM_empty) THEN Some(EmptyObject)
  ELSE IF JSONparse(text[1]) = Null THEN Null
       ELSE Some(JSONparse(text[1])[1][1])

\* the AI call or the parsing of its answer fails
AnswerFails(outcome) == outcome.rejects \/ ParseAnswer(outcome.text) = Null

\* the rest of the function with no try around it
AfterGenerateContent_NoCatch(outcome) ==
  IF AnswerFails(outcome) THEN Rejected(ERR_failed_to_fetch)
  ELSE Fulfilled(ParseAnswer(outcome.text)[1])

\* the try block from the await on, and the catch block
AfterGenerateContent(outcome) ==
  IF AnswerFails(outcome) THEN Fulfilled(VALIDATION_error)
  ELSE Fulfilled(ParseAnswer(outcome.text)[1])

ValidationInit ==
  /\ validation = ValidationIdle
  /\ vocab = VocabIdle
  /\ classification = ClassificationIdle
  /\ debounce = DebounceIdle(DefaultDelay)
  /\ evaluation = EvaluationIdle
  /\ grammarResult = Null
  /\ st = InitialState
  /\ view = Shown(InitialState, Null)
  /\ card = Null
  /\ calls = <<>>
  /\ recentAnalyses = <<>>
  /\ app = AppLoaded
  /\ appView = Some(AppShown(AppLoaded, <<>>))
  /\ localStorage = StorageLoaded
  /\ highlight = HighlightIdle

nonValidationVars ==
  <<grammarResult, card, st, view, calls, recentAnalyses, app, appView, localStorage, vocab,
    classification, debounce, evaluation,
    highlight>>

\* validateContentWithGemini(studentText, referenceText, referenceFiles) up
\* to its return or its await
validateContentWithGemini ==
  /\ validation.pc = "idle"
  /\ \E studentText \in StudentTexts, referenceText \in ReferenceTexts,
        referenceFiles \in ReferenceFileLists :
       validation' =
         IF NoUsableReference(referenceText, referenceFiles)
         THEN [pc |-> "settled", studentText |-> studentText,
               referenceText |-> referenceText, referenceFiles |-> referenceFiles,
               requests |-> 0, outcome |-> Null,
               promise |-> Fulfilled(VALIDATION_no_reference)]
         ELSE [pc |-> "awaiting", studentText |-> studentText,
               referenceText |-> referenceText, referenceFiles |-> referenceFiles,
               requests |-> 1, outcome |-> Null, promise |-> Pending]
  /\ UNCHANGED nonValidationVars

\* generateContent ends and the function runs on to its return
GenerateContentSettles ==
  /\ validation.pc = "awaiting"
  /\ \E outcome \in GenerateContentOutcomes :
       validation' = [validation EXCEPT !.pc = "settled", !.outcome = Some(outcome),
                                        !.promise = AfterGenerateContent(outcome)]
  /\ UNCHANGED nonValidationVars

\* the caller has its value
ValidationReturned ==
  /\ validation.pc = "settled"
  /\ validation' = ValidationIdle
  /\ UNCHANGED nonValidationVars

ValidationNext == validateContentWithGemini \/ GenerateContentSettles \/ ValidationReturned

ValidationSpec == ValidationInit /\ [][ValidationNext]_vars

\* C20: the promise of validateContentWithGemini is never rejected; with no
\* usable reference it is fulfilled with hasReference false and accuracyScore
\* 0 and no AI request is made; when the AI call or the parsing of its answer
\* fails it is fulfilled with hasReference true and accuracyScore 0
C20_NeverRejects ==
  /\ validation.pc # "idle" => validation.promise.state # "rejected"
  /\ validation.pc = "settled" =>
       /\ validation.promise.state = "fulfilled"
       /\ NoUsableReference(validation.referenceText, validation.referenceFiles) =>
            /\ validation.requests = 0
            /\ validation.promise.value[1].hasReference = FALSE
            /\ validation.promise.value[1].accuracyScore = 0
       /\ (validation.outcome # Null /\ AnswerFails(validation.outcome[1])) =>
            /\ validation.promise.value[1].hasReference = TRUE
            /\ validation.promise.value[1].accuracyScore = 0
  /\ validation.pc = "awaiting" =>
       ~NoUsableReference(validation.referenceText, validation.referenceFiles)

\* a call with a reference text of exactly five characters and no files went
\* to the AI service, whose answer was not JSON
C20_Witness ==
  /\ validation.pc = "settled"
  /\ validation.referenceText = Some(REF_five)
  /\ validation.referenceFiles = Null
  /\ validation.outcome = Some([rejects |-> FALSE, text |-> Some(ITEM_corrupt)])
  /\ validation.promise = Fulfilled(VALIDATION_error)

\* ---------------------------------------------------------------------------
\* The analysis as a whole: a failing grammar check, analyses in flight, the
\* end of loading, a failed analysis
\* ---------------------------------------------------------------------------

\* the grammar check of calls[i] has failed, or fails in this step
GrammarFailed(i) ==
  \/ calls[i].grammar = Fulfilled(Null)
  \/ \E response \in GrammarResponses :
       checkGrammar(response).state = "rejected" /\ GrammarSettlesWith(i, response)

\* the proficiency request of calls[i] has succeeded, or succeeds in this step
DiagSucceeds(i) ==
  \/ calls[i].diag.state = "fulfilled"
  \/ \E response \in StudentResponses :
       analyzeStudentWorkAPI(response).state = "fulfilled" /\ DiagSettlesWith(i, response)

\* the complexity request of calls[i] has succeeded, or succeeds in this step
CompSucceeds(i) ==
  \/ calls[i].comp.state = "fulfilled"
  \/ \E response \in ComplexityResponses :
       classifyTextComplexityAPI(response).state = "fulfilled" /\ CompSettlesWith(i, response)

\* the step is the last one of calls[i]
Ends(i) == calls' = Remove(calls, i)

\* the step puts a new analysis in front of the recent analyses
SavedToCache ==
  /\ Len(recentAnalyses') = Min2(Len(recentAnalyses) + 1, RecentLimit)
  /\ \A k \in 2..Len(recentAnalyses') : recentAnalyses'[k] = recentAnalyses[k - 1]

\* C21: when an analysis ends whose grammar check has failed while its
\* proficiency and complexity requests have succeeded, it ends as a
\* successful analysis: it is saved in front of the recent analyses with the
\* results that were delivered, and the Analyzer that ran it has both results
\* set and loading ended (so the results view shows them), grammarResult
\* null, and its error message left as it was.
C21_GrammarFailureTolerated ==
  [][\A i \in 1..Len(calls) :
       (Ends(i) /\ GrammarFailed(i) /\ DiagSucceeds(i) /\ CompSucceeds(i))
       => /\ SavedToCache
          /\ calls[i].comp.state = "fulfilled"
               => recentAnalyses'[1].complexityResult = calls[i].comp.value[1]
          /\ calls[i].diag.state = "fulfilled"
               => recentAnalyses'[1].diagnosisResult.issues = calls[i].diag.value[1].issues
          /\ calls[i].mounted
               => /\ st'.diagnosisResult = Some(recentAnalyses'[1].diagnosisResult)
                  /\ st'.complexityResult = Some(recentAnalyses'[1].complexityResult)
                  /\ st'.currentIssues = recentAnalyses'[1].diagnosisResult.issues
                  /\ ~st'.isLoading
                  /\ grammarResult' = Null
                  /\ st'.errorMessage = st.errorMessage]_vars

\* an analysis whose grammar check failed has ended: both results are set,
\* no grammar result, no error message, and the analysis is in the cache
C21_Witness ==
  /\ calls = <<>>
  /\ hasResults(st) /\ ~st.isLoading
  /\ grammarResult = Null
  /\ st.errorMessage = Null
  /\ Len(recentAnalyses) = 1
  /\ st.diagnosisResult = Some(recentAnalyses[1].diagnosisResult)
  /\ st.complexityResult = Some(recentAnalyses[1].complexityResult)
\* bound: the analyses of one session (saved or under way)
MaxAnalyses == 2

\* a session of several analyses, one after the other or abandoned and
\* started again, without attached files and reference validation
SessionNext ==
  \/ onViewChange
  \/ handleInputChange
  \/ DismissError
  \/ ClickAnalyzeWithin(MaxAnalyses)
  \/ handleKeyDownWithin(MaxAnalyses)
  \/ DiagSettles
  \/ CompSettles
  \/ GrammarSettles
  \/ Render

SessionSpec == Init /\ [][SessionNext]_vars

\* the calls of handleAnalyze that have not finished, that is, the analyses
\* in flight
InFlight == 1..Len(calls)

\* C22: at most one analysis is in flight at any time (a call of
\* handleAnalyze made while a previous analysis has not finished starts
\* nothing, so that a second one is never under way).
C22_AtMostOneInFlight == Cardinality(InFlight) <= 1

\* the same for the analyses of the Analyzer that is mounted: of the
\* analyses in flight at most one was started by it, and while there is
\* one its handleAnalyze starts no other
C22_OnePerMountedAnalyzer ==
  [][/\ Cardinality({i \in InFlight : calls[i].mounted}) <= 1
     /\ (\E i \in InFlight : calls[i].mounted) => Len(calls') <= Len(calls)]_vars
\* the Analyzer when every outstanding request eventually settles: the
\* three requests of an analysis and its content validation
FairSpec ==
  /\ Init /\ [][Next]_vars
  /\ WF_vars(DiagSettles) /\ WF_vars(CompSettles)
  /\ WF_vars(GrammarSettles) /\ WF_vars(ValidationSettles)

\* C23: every analysis that starts (isLoading true) eventually ends with
\* isLoading false and selectedFile cleared, whether the requests succeed,
\* one of them is rejected, or the content validation reports a failure.
C23_LoadingEnds ==
  st.isLoading ~> (~st.isLoading /\ st.selectedFile = Null)

\* an analysis with content validation has ended in the Analyzer that ran
\* it, the validation having found nothing accurate: loading has ended and
\* no file is selected
C23_Witness ==
  /\ calls = <<>>
  /\ ~st.isLoading /\ st.selectedFile = Null
  /\ st.diagnosisResult # Null
  /\ st.diagnosisResult[1].contentValidation = Some(VALIDATION_failed)
\* the step is the one in which calls[i] fails: its proficiency or its
\* complexity request is rejected, and handleAnalyze ends in its catch block
Fails(i) ==
  /\ Ends(i)
  /\ \/ \E response \in StudentResponses :
          analyzeStudentWorkAPI(response).state = "rejected" /\ DiagSettlesWith(i, response)
     \/ \E response \in ComplexityResponses :
          classifyTextComplexityAPI(response).state = "rejected" /\ CompSettlesWith(i, response)

\* after the step the Analyzer holds the results it displayed when calls[i]
\* was asked for
ResultsKept(i) ==
  /\ st'.diagnosisResult = calls[i].shown.diagnosisResult
  /\ st'.complexityResult = calls[i].shown.complexityResult
  /\ st'.currentIssues = calls[i].shown.currentIssues
  /\ grammarResult' = calls[i].shown.grammarResult

\* C24: a failed analysis leaves the displayed state as it was before the
\* attempt: when the proficiency or the complexity request of an analysis
\* of the mounted Analyzer is rejected, diagnosisResult, complexityResult,
\* currentIssues, grammarResult and currentText have the values that were
\* displayed when the analysis was asked for.
C24_FailureRestoresDisplay ==
  [][\A i \in 1..Len(calls) :
       (calls[i].mounted /\ Fails(i))
       => (ResultsKept(i) /\ st'.currentText = calls[i].shown.currentText)]_vars

\* the part of C24 that is about the results alone
C24_FailureKeepsResults ==
  [][\A i \in 1..Len(calls) : (calls[i].mounted /\ Fails(i)) => ResultsKept(i)]_vars

\* a failed analysis has left the results of the analysis before it on
\* screen, next to a text that is not the one they were computed from
C24_StaleResultsShown ==
  /\ calls = <<>>
  /\ hasResults(st) /\ ~st.isLoading
  /\ st.errorMessage # Null
  /\ Len(recentAnalyses) = 1
  /\ st.diagnosisResult = Some(recentAnalyses[1].diagnosisResult)
  /\ st.currentText # recentAnalyses[1].studentText
\* ---------------------------------------------------------------------------
\* InteractiveEditor (src/components/Analyzer.tsx): the segments it renders
\* for a text, the issues of the diagnosis and the issues of the grammar check
\* ---------------------------------------------------------------------------

\* bound: the grammar issues of one rendering
MaxHighlights == 2

\* String.prototype.substring(start, end): both clamped to 0..length,
\* exchanged when start > end
Substring(str, start, end) ==
  LET a == Max2(0, Min2(start, Len(str)))
      b == Max2(0, Min2(end, Len(str)))
  IN SubSeq(str, Min2(a, b) + 1, Max2(a, b))

\* String.prototype.indexOf(search, from): the first index >= from at which
\* search occurs, or -1
IndexOf(str, search, from) ==
  LET at == { i \in Max2(0, Min2(from, Len(str)))..(Len(str) - Len(search)) :
                SubSeq(str, i + 1, i + Len(search)) = search }
  IN IF at = {} THEN -1 ELSE CHOOSE i \in at : \A j \in at : i <= j

\* Array.prototype.sort with a comparator that subtracts keys, on a list of
\* [key, value]: a stable sort, as insertion of each element behind the
\* elements whose key is not larger
RECURSIVE InsertByKey(_, _)
InsertByKey(sorted, element) ==
  IF sorted = <<>> THEN <<element>>
  ELSE IF Head(sorted).key <= element.key
       THEN <<Head(sorted)>> \o InsertByKey(Tail(sorted), element)
       ELSE <<element>> \o sorted

RECURSIVE SortByKey(_)
SortByKey(keyed) ==
  IF keyed = <<>> THEN <<>>
  ELSE InsertByKey(SortByKey(SubSeq(keyed, 1, Len(keyed) - 1)), keyed[Len(keyed)])

Values_(keyed) == [k \in 1..Len(keyed) |-> keyed[k].value]

\* a segment: its text, and the grammar issue or diagnosis issue it shows
Segment(text, grammarIssue, diagIssue) ==
  [text |-> text, grammarIssue |-> grammarIssue, diagIssue |-> diagIssue]

\* grammarIssues.forEach(issue => grammarHighlights.push({offset, length, issue}))
grammarHighlights(grammarIssues) ==
  [k \in 1..Len(grammarIssues) |->
     [offset |-> grammarIssues[k].offset, length |-> grammarIssues[k].length,
      issue |-> grammarIssues[k]]]

\* grammarHighlights.forEach(highlight => ..) from highlight k on, with pos
\* and the segments pushed so far
RECURSIVE PushHighlights(_, _, _, _, _)
PushHighlights(text, highlights, k, pos, segments) ==
  IF k > Len(highlights) THEN [pos |-> pos, segments |-> segments]
  ELSE LET h == highlights[k]
           gap == IF h.offset > pos
                  THEN <<Segment(Substring(text, pos, h.offset), Null, Null)>>
                  ELSE <<>>
       IN PushHighlights(text, highlights, k + 1, h.offset + h.length,
             segments \o gap
               \o <<Segment(Substring(text, h.offset, h.offset + h.length), Some(h.issue), Null)>>)

\* sortedIssues.forEach(issue => ..) from issue k on, with searchFrom and the
\* segments pushed so far
RECURSIVE PushDiagnosisIssues(_, _, _, _, _)
PushDiagnosisIssues(text, issues, k, searchFrom, segments) ==
  IF k > Len(issues) THEN [pos |-> searchFrom, segments |-> segments]
  ELSE LET issue == issues[k]
           index == IndexOf(text, issue.original, searchFrom)
       IN IF index # -1
          THEN PushDiagnosisIssues(text, issues, k + 1, index + Len(issue.original),
                  segments
                    \o (IF index > searchFrom
                        THEN <<Segment(Substring(text, searchFrom, index), Null, Null)>>
                        ELSE <<>>)
                    \o <<Segment(issue.original, Null, Some(issue))>>)
          ELSE PushDiagnosisIssues(text, issues, k + 1, searchFrom, segments)

\* if (pos < text.length) segments.push({ text: text.substring(pos) })
PushRest(text, pushed) ==
  IF pushed.pos < Len(text)
  THEN pushed.segments \o <<Segment(Substring(text, pushed.pos, Len(text)), Null, Null)>>
  ELSE pushed.segments

\* [...issues].sort((a, b) => text.indexOf(a.original) - text.indexOf(b.original))
SortByFirstIndex(text, issues) ==
  Values_(SortByKey([k \in 1..Len(issues) |->
                      [key |-> IndexOf(text, issues[k].original, 0), value |-> issues[k]]]))

\* grammarHighlights.sort((a, b) => a.offset - b.offset)
SortByOffset(highlights) ==
  Values_(SortByKey([k \in 1..Len(highlights) |->
                      [key |-> highlights[k].offset, value |-> highlights[k]]]))

\* the segments of InteractiveEditor: those of the grammar issues, sorted by
\* offset; those of the diagnosis issues when there is no grammar issue
InteractiveEditorSegments(text, issues, grammarIssues) ==
  IF grammarIssues = <<>>
  THEN PushRest(text, PushDiagnosisIssues(text, SortByFirstIndex(text, issues), 1, 0, <<>>))
  ELSE PushRest(text, PushHighlights(text, SortByOffset(grammarHighlights(grammarIssues)),
                                     1, 0, <<>>))

\* the texts of the segments one after the other, as the <div> shows them
RECURSIVE Concatenation(_)
Concatenation(segments) ==
  IF segments = <<>> THEN <<>> ELSE Head(segments).text \o Concatenation(Tail(segments))

\* the texts rendered, with distinct characters
TEXT_abcd == <<"a", "b", "c", "d">>
HighlightTexts == {TEXT_empty, TEXT_ab, TEXT_abcd}

\* the grammar issues that lie within text: 0 <= offset, offset + length <= len(text)
IssuesWithin(text) ==
  { Issue("spelling", "error", MSG_plain, Null, span[1], span[2]) :
      span \in { sp \in (0..Len(text)) \X (0..Len(text)) : sp[1] + sp[2] <= Len(text) } }

\* the lists of at most n of them, in any order
RECURSIVE HighlightLists(_, _)
HighlightLists(text, n) ==
  IF n = 0 THEN {<<>>}
  ELSE HighlightLists(text, n - 1) \cup
       { Append(l, issue) : l \in HighlightLists(text, n - 1), issue \in IssuesWithin(text) }

\* the issues of a diagnosis: the words they are about
DiagnosisIssueLists == { <<>>, <<[original |-> <<"b">>]>>, <<[original |-> <<"c", "d">>], [original |-> <<"a">>]>> }

HighlightInit ==
  /\ highlight \in { [pc |-> "props", text |-> text, issues |-> issues,
                       grammarIssues |-> grammarIssues, segments |-> <<>>] :
                        text \in HighlightTexts, issues \in DiagnosisIssueLists,
                        grammarIssues \in {<<>>} }
  /\ vocab = VocabIdle
  /\ classification = ClassificationIdle
  /\ debounce = DebounceIdle(DefaultDelay)
  /\ evaluation = EvaluationIdle
  /\ validation = ValidationIdle
  /\ grammarResult = Null
  /\ st = InitialState
  /\ view = Shown(InitialState, Null)
  /\ card = Null
  /\ calls = <<>>
  /\ recentAnalyses = <<>>
  /\ app = AppLoaded
  /\ appView = Some(AppShown(AppLoaded, <<>>))
  /\ localStorage = StorageLoaded

nonHighlightVars ==
  <<grammarResult, card, st, view, calls, recentAnalyses, app, appView, localStorage, vocab,
    classification, debounce, evaluation, validation>>

\* InteractiveEditor renders its props
RenderInteractiveEditor ==
  /\ highlight.pc = "props"
  /\ highlight' = [highlight EXCEPT
                     !.pc = "rendered",
                     !.segments = InteractiveEditorSegments(highlight.text, highlight.issues,
                                                            highlight.grammarIssues)]
  /\ UNCHANGED nonHighlightVars

\* the Analyzer sets other props: the text, the issues of the diagnosis and
\* the issues of the grammar check
SetEditorProps ==
  /\ highlight.pc = "rendered"
  /\ \E text \in HighlightTexts, issues \in DiagnosisIssueLists :
       \E grammarIssues \in HighlightLists(text, MaxHighlights) :
         highlight' = [pc |-> "props", text |-> text, issues |-> issues,
                       grammarIssues |-> grammarIssues, segments |-> <<>>]
  /\ UNCHANGED nonHighlightVars

HighlightNext == RenderInteractiveEditor \/ SetEditorProps

HighlightSpec == HighlightInit /\ [][HighlightNext]_vars

\* the issues of the rendering are not empty and, two by two, share no
\* character
NoOverlap ==
  \A i, j \in 1..Len(highlight.grammarIssues) :
    /\ highlight.grammarIssues[i].length > 0
    /\ i # j => \/ highlight.grammarIssues[i].offset + highlight.grammarIssues[i].length
                  <= highlight.grammarIssues[j].offset
             \/ highlight.grammarIssues[j].offset + highlight.grammarIssues[j].length
                  <= highlight.grammarIssues[i].offset

\* C25: highlighting preserves the text: for every text and every list of
\* grammar issues that lie within it, in any order and overlapping or not,
\* the texts of the rendered segments, one after the other, are the text.
C25_HighlightingPreservesText ==
  highlight.pc = "rendered" => Concatenation(highlight.segments) = highlight.text

\* the same for issues that are not empty and do not overlap
C25_PreservesTextWithoutOverlap ==
  (highlight.pc = "rendered" /\ NoOverlap)
    => Concatenation(highlight.segments) = highlight.text
====
